---- MODULE Spec2Model ----
(***************************************************************************)
(* Depth-of-Market viewer: the local order book (datafeed/orderbook.py),   *)
(* the feed orchestrator (datafeed/binance_client.py) with its snapshot    *)
(* queue, the window's poll of that queue (ui/dom_window.py) and the       *)
(* rolling trade flows (engine/flows.py).                                  *)
(*                                                                         *)
(* Prices and quantities are Python floats parsed from strings. The model   *)
(* keeps the strings in the messages; a float is the integer number of     *)
(* quarters it holds (1.0 is 4), which makes the halving of mid_price and  *)
(* of the bin size exact; float() of a string is FloatOf, defined on the   *)
(* numeric strings only. Arithmetic on floats rounds as binary floating     *)
(* point does, to the nearest value of FloatBits significant bits, ties to  *)
(* even; a quarter is the smallest step. float_bits is FloatBits, which     *)
(* makes the rounding happen on small numbers, except in SpecScenario,      *)
(* which runs on the numbers of the specification's end-to-end scenario     *)
(* with the 53 bits of the program's floats.                                *)
(*                                                                         *)
(* The performance counters of OrderBook (_update_count,                   *)
(* _update_start_time, _last_sort_time), which only get_updates_per_sec    *)
(* reads, and the print counter _debug_ws_count are not part of the model. *)
(***************************************************************************)
EXTENDS Integers, Sequences, FiniteSets, TLC

VARIABLES
    bids,               \* OrderBook.bids: price -> quantity
    asks,               \* OrderBook.asks: price -> quantity
    last_update_id,     \* OrderBook.last_update_id
    bid_prices_sorted,  \* OrderBook._bid_prices_sorted (descending)
    ask_prices_sorted,  \* OrderBook._ask_prices_sorted (ascending)
    dirty,              \* OrderBook._dirty
    lastOp,             \* the OrderBook method called last
    ret,                \* how that call ended: "None", "True", "False", "raised"
    pre,                \* SpecCall: the book before the first call
    msg,                \* SpecCall: the message the calls are made with
    calls,              \* SpecCall: the calls made so far
    running,            \* BinanceClient._running
    snapshot_loaded,    \* BinanceClient._snapshot_loaded
    buffered_updates,   \* BinanceClient._buffered_updates
    last_snapshot_time, \* BinanceClient._last_snapshot_time
    update_count,       \* BinanceClient._update_count
    update_count_last,  \* BinanceClient._update_count_last
    rate_calc_time,     \* BinanceClient._rate_calc_time
    updates_per_sec,    \* BinanceClient._updates_per_sec, a fraction <<n, d>>
    snapshot_queue,     \* BinanceClient.snapshot_queue, oldest first
    debug_depth_count,  \* BinanceClient._debug_depth_count
    trades,             \* FlowEngine._trades, oldest first
    bid_volume,         \* FlowEngine._bid_volume: bin price -> quantity
    ask_volume,         \* FlowEngine._ask_volume: bin price -> quantity
    last_cleanup_time,  \* FlowEngine._last_cleanup_time
    pc,                 \* where run() is: "init", "fetch", "connect", "recv",
                        \* "done" (returned), "failed" (raised); in SpecStop
                        \* also "handle" (a message is in hand, _running was
                        \* found true)
    now,                \* time.perf_counter(), in snapshot intervals
    applied,            \* what apply_update returned to _process_depth_update
                        \* last, "None" when not called since load_snapshot
    loads,              \* the calls of load_snapshot that run() has seen return
    result,             \* the last query: its argument, the value returned,
                        \* perf_counter() at the call, the engine before it
    book_calls,         \* SpecMethods: the messages the client has passed to
                        \* load_snapshot and apply_update, in the order of the calls
    push_pc,            \* SpecQueue: where _maybe_push_snapshot is: "idle", "full"
                        \* (queue.Full caught), "got" (get_nowait returned)
    pushing,            \* SpecQueue: its local snapshot while it is not idle
    built,              \* SpecQueue: the artifact built last
    poll_pc,            \* DOMWindow._poll_snapshots: "idle" or "draining"
    latest,             \* its local latest
    last_snapshot,      \* DOMWindow._last_snapshot
                        \* (an artifact x is held as <<x>>, None as <<>>)
    float_bits,         \* the significant bits of a float in this behaviour
    stop_called         \* SpecStop: stop() has been called

bookVars == <<bids, asks, last_update_id, bid_prices_sorted, ask_prices_sorted, dirty>>
modeVars == <<float_bits, stop_called>>
callVars == <<pre, msg, calls, modeVars>>
clientVars == <<running, snapshot_loaded, buffered_updates, last_snapshot_time,
                update_count, update_count_last, rate_calc_time, updates_per_sec,
                snapshot_queue, debug_depth_count>>
flowVars == <<trades, bid_volume, ask_volume, last_cleanup_time>>
runVars == <<pc, now, applied, loads>>
queueVars == <<push_pc, pushing, built, poll_pc, latest, last_snapshot>>
auxVars == <<result, book_calls, queueVars>>
feedVars == <<clientVars, flowVars, runVars, auxVars>>
vars == <<bids, asks, last_update_id, bid_prices_sorted, ask_prices_sorted, dirty,
          lastOp, ret, pre, msg, calls, running, snapshot_loaded, buffered_updates,
          last_snapshot_time, update_count, update_count_last, rate_calc_time,
          updates_per_sec, snapshot_queue, debug_depth_count, trades, bid_volume,
          ask_volume, last_cleanup_time, pc, now, applied, loads, result,
          book_calls, push_pc, pushing, built, poll_pc, latest, last_snapshot,
          float_bits, stop_called>>

----------------------------------------------------------------------------
(* Bounds of the model *)
MaxId == 2        \* update ids range over 0..MaxId
MaxChanges == 1   \* SpecBook: price entries of one message, both sides together
MaxEntries == 2   \* SpecCall: price entries of one message, both sides together
MaxSeed == 2      \* SpecCall: price levels of the book before the call
MaxLevels == 2    \* the levels argument of get_ladder ranges over 0..MaxLevels
MaxFeedChanges == 1   \* SpecClient: price entries of one message of the feed
MaxDepthMsgs == 3     \* SpecClient: depth messages handled in one run
MaxTime == 2          \* SpecClient: snapshot intervals that pass in one run
MaxTradeMsgs == 1     \* SpecClient: trade messages handled in one run
FloatBits == 3        \* significant bits of a float
MaxMethodCalls == 3   \* SpecMethods: calls of _process_depth_update
MaxCounterCalls == 4  \* SpecCounter: calls of _process_depth_update
MaxQueueMsgs == 6     \* SpecQueue: depth messages handled
MaxTrades == 3        \* SpecFlow: trades processed
MaxVolumeTrades == 3  \* SpecVolume: trades processed
MaxLadderEntries == 2 \* SpecLadder: price entries of a snapshot, both sides together
MaxQueueTime == 6     \* SpecQueue: snapshot intervals that pass
MaxStopMsgs == 2      \* SpecStop: depth messages handled in one run
WindowSec == 60     \* DEFAULT_WINDOW_SEC, flow_window_sec=60.0
QueueMaxSize == 5   \* queue.Queue(maxsize=5)
TicksPerSec == 10   \* 1.0 s in intervals of snapshot_interval_ms=100
DoubleBits == 53    \* significant bits of a Python float

----------------------------------------------------------------------------
(* Strings of the wire format and float() *)
PriceStrs == {"1", "2"}
QtyStrs == {"0", "1", "2", "-1", "x"}

\* float(s) succeeds on these strings and raises ValueError on every other
NumericStrs == {"0", "0.75", "1", "1.5", "1.75", "2", "2.5", "3", "3.5", "4", "5", "-1",
                "99.00", "99.50", "101.00"}

FloatOf(s) ==
    CASE s = "0" -> 0
      [] s = "0.75" -> 3
      [] s = "1" -> 4
      [] s = "1.5" -> 6
      [] s = "1.75" -> 7
      [] s = "2" -> 8
      [] s = "2.5" -> 10
      [] s = "3" -> 12
      [] s = "3.5" -> 14
      [] s = "4" -> 16
      [] s = "5" -> 20
      [] s = "99.00" -> 396
      [] s = "99.50" -> 398
      [] s = "100.25" -> 401
      [] s = "101.00" -> 404
      [] s = "-1" -> 0 - 4

\* `price, qty = float(price_str), float(qty_str)` completes
Parses(entry) == entry[1] \in NumericStrs /\ entry[2] \in NumericStrs

----------------------------------------------------------------------------
(* Float arithmetic *)
Abs(x) == IF x < 0 THEN 0 - x ELSE x

\* n without its lowest k bits
RECURSIVE ShiftRight(_, _)
ShiftRight(n, k) == IF k = 0 \/ n = 0 THEN n ELSE ShiftRight(n \div 2, k - 1)

\* the spacing of the floats around the magnitude n
RECURSIVE Ulp(_)
Ulp(n) == IF ShiftRight(n, float_bits) = 0 THEN 1 ELSE 2 * Ulp(n \div 2)

\* the float nearest to n / d (d > 0), ties to the even mantissa
RoundRat(n, d) ==
    LET a == Abs(n)
        u == Ulp(a \div d)
        q == a \div (d * u)
        r == a - q * d * u
        m == IF 2 * r > d * u \/ (2 * r = d * u /\ q % 2 = 1) THEN (q + 1) * u ELSE q * u
    IN IF n < 0 THEN 0 - m ELSE m

Round(x) == RoundRat(x, 1)

One == FloatOf("1")

Two == FloatOf("2")

\* the configuration of the client and of its flow engine
BinSize == FloatOf("1")   \* bin_size: float = 1.0
Levels == 1         \* the levels argument of the client: bins on each side of mid

\* float(i) of an int
IntToFloat(i) == Round(i * One)

FAdd(a, b) == Round(a + b)

FSub(a, b) == Round(a - b)

FMul(a, b) == RoundRat(a * b, One)

\* a / b, for b > 0
FDiv(a, b) == RoundRat(a * One, b)

\* a // b, for b > 0: the floor of the quotient, as a float
FFloorDiv(a, b) == IntToFloat(a \div b)

----------------------------------------------------------------------------
(* dict[float, float] *)
EmptyDict == [p \in {} |-> 0]

DictSet(d, k, v) == [p \in (DOMAIN d) \cup {k} |-> IF p = k THEN v ELSE d[p]]

DictPop(d, k) == [p \in (DOMAIN d) \ {k} |-> d[p]]

SetMax(S) == CHOOSE x \in S : \A y \in S : y <= x

SetMin(S) == CHOOSE x \in S : \A y \in S : x <= y

RECURSIVE SortedDesc(_)
SortedDesc(S) ==
    IF S = {} THEN <<>> ELSE <<SetMax(S)>> \o SortedDesc(S \ {SetMax(S)})

RECURSIVE SortedAsc(_)
SortedAsc(S) ==
    IF S = {} THEN <<>> ELSE <<SetMin(S)>> \o SortedAsc(S \ {SetMin(S)})

----------------------------------------------------------------------------
(* OrderBook as a record, and its methods as functions of it *)
Book == [bids |-> bids, asks |-> asks, last_update_id |-> last_update_id,
         bid_prices_sorted |-> bid_prices_sorted,
         ask_prices_sorted |-> ask_prices_sorted, dirty |-> dirty]

NewBook == [bids |-> EmptyDict, asks |-> EmptyDict, last_update_id |-> 0,
            bid_prices_sorted |-> <<>>, ask_prices_sorted |-> <<>>, dirty |-> TRUE]

ensure_sorted(ob) ==
    IF ~ob.dirty THEN ob
    ELSE [ob EXCEPT !.bid_prices_sorted = SortedDesc(DOMAIN ob.bids),
                    !.ask_prices_sorted = SortedAsc(DOMAIN ob.asks),
                    !.dirty = FALSE]

\* The loop of load_snapshot over one side: [d, raised], d the dict when the
\* loop ended, raised whether float() raised on an entry.
RECURSIVE LoadLevels(_, _)
LoadLevels(d, levels) ==
    IF levels = <<>> THEN [d |-> d, raised |-> FALSE]
    ELSE IF ~Parses(Head(levels)) THEN [d |-> d, raised |-> TRUE]
    ELSE LET price == FloatOf(Head(levels)[1])
             qty == FloatOf(Head(levels)[2])
         IN LoadLevels(IF qty > 0 THEN DictSet(d, price, qty) ELSE d, Tail(levels))

\* load_snapshot without the two clear() calls
load_snapshot_no_clear(ob, data) ==
    LET b == LoadLevels(ob.bids, data.bids)
        a == LoadLevels(ob.asks, data.asks)
        moved == [ob EXCEPT !.last_update_id = data.lastUpdateId]
    IN IF b.raised
       THEN [ob |-> [moved EXCEPT !.bids = b.d], ret |-> "raised"]
       ELSE IF a.raised
       THEN [ob |-> [moved EXCEPT !.bids = b.d, !.asks = a.d], ret |-> "raised"]
       ELSE [ob |-> ensure_sorted([moved EXCEPT !.bids = b.d, !.asks = a.d,
                                                !.dirty = TRUE]),
             ret |-> "None"]

load_snapshot(ob, data) ==
    LET b == LoadLevels(EmptyDict, data.bids)
        a == LoadLevels(EmptyDict, data.asks)
        cleared == [ob EXCEPT !.last_update_id = data.lastUpdateId,
                              !.bids = EmptyDict, !.asks = EmptyDict]
    IN IF b.raised
       THEN [ob |-> [cleared EXCEPT !.bids = b.d], ret |-> "raised"]
       ELSE IF a.raised
       THEN [ob |-> [cleared EXCEPT !.bids = b.d, !.asks = a.d], ret |-> "raised"]
       ELSE [ob |-> ensure_sorted([cleared EXCEPT !.bids = b.d, !.asks = a.d,
                                                  !.dirty = TRUE]),
             ret |-> "None"]

\* The loop of apply_update over one side
RECURSIVE ApplyChanges(_, _)
\* the loop storing a quantity of 0 instead of removing the price
RECURSIVE ApplyChangesKeepZero(_, _)
ApplyChangesKeepZero(d, changes) ==
    IF changes = <<>> THEN [d |-> d, raised |-> FALSE]
    ELSE IF ~Parses(Head(changes)) THEN [d |-> d, raised |-> TRUE]
    ELSE ApplyChangesKeepZero(DictSet(d, FloatOf(Head(changes)[1]), FloatOf(Head(changes)[2])),
                              Tail(changes))

ApplyChanges(d, changes) ==
    IF changes = <<>> THEN [d |-> d, raised |-> FALSE]
    ELSE IF ~Parses(Head(changes)) THEN [d |-> d, raised |-> TRUE]
    ELSE LET price == FloatOf(Head(changes)[1])
             qty == FloatOf(Head(changes)[2])
         IN ApplyChanges(IF qty = 0 THEN DictPop(d, price) ELSE DictSet(d, price, qty),
                         Tail(changes))

\* update.get('U', update.get('u', 0)): the key U is optional, a sequence of
\* length 0 or 1 here
FirstId(update) == IF update.U = <<>> THEN update.u ELSE update.U[1]

\* The rest of apply_update, after the sequence checks
ApplyTo(ob, update, new_id) ==
    LET b == ApplyChanges(ob.bids, update.b)
        a == ApplyChanges(ob.asks, update.a)
    IN IF b.raised THEN [ob |-> [ob EXCEPT !.bids = b.d], ret |-> "raised"]
       ELSE IF a.raised
       THEN [ob |-> [ob EXCEPT !.bids = b.d, !.asks = a.d], ret |-> "raised"]
       ELSE [ob |-> [ob EXCEPT !.bids = b.d, !.asks = a.d,
                               !.last_update_id = new_id, !.dirty = TRUE],
             ret |-> "True"]

\* apply_update without the gap check
apply_update_no_gap_check(ob, update) ==
    IF update.u <= ob.last_update_id THEN [ob |-> ob, ret |-> "True"]
    ELSE ApplyTo(ob, update, update.u)

\* apply_update without the already-processed check
apply_update_no_stale_check(ob, update) ==
    IF FirstId(update) > ob.last_update_id + 1 THEN [ob |-> ob, ret |-> "False"]
    ELSE ApplyTo(ob, update, update.u)

\* apply_update counting the updates (last_update_id += 1) instead of
\* recording the id of the last one
apply_update_counts(ob, update) ==
    IF FirstId(update) > ob.last_update_id + 1 THEN [ob |-> ob, ret |-> "False"]
    ELSE IF update.u <= ob.last_update_id THEN [ob |-> ob, ret |-> "True"]
    ELSE ApplyTo(ob, update, ob.last_update_id + 1)

apply_update(ob, update) ==
    LET first_id == FirstId(update)
        last_id == update.u
    IN IF first_id > ob.last_update_id + 1 THEN [ob |-> ob, ret |-> "False"]
       ELSE IF last_id <= ob.last_update_id THEN [ob |-> ob, ret |-> "True"]
       ELSE ApplyTo(ob, update, last_id)

\* The properties and get_ladder: [ob, value, raised], ob the book after the
\* call's _ensure_sorted
best_bid(ob) ==
    LET s == ensure_sorted(ob)
    IN [ob |-> s,
        value |-> IF s.bid_prices_sorted # <<>> THEN s.bid_prices_sorted[1] ELSE 0]

best_ask(ob) ==
    LET s == ensure_sorted(ob)
    IN [ob |-> s,
        value |-> IF s.ask_prices_sorted # <<>> THEN s.ask_prices_sorted[1] ELSE 0]

Min2(x, y) == IF x <= y THEN x ELSE y

\* PriceLevel(price, bid_qty, ask_qty) is the triple; self.asks[price] raises
\* KeyError when the cached price is no longer a key
get_ladder(ob, levels) ==
    LET s == ensure_sorted(ob)
        ask_count == Min2(levels, Len(s.ask_prices_sorted))
        bid_count == Min2(levels, Len(s.bid_prices_sorted))
        askKeysOk == \A i \in 1..ask_count : s.ask_prices_sorted[i] \in DOMAIN s.asks
        bidKeysOk == \A i \in 1..bid_count : s.bid_prices_sorted[i] \in DOMAIN s.bids
    IN IF ~(askKeysOk /\ bidKeysOk)
       THEN [ob |-> s, value |-> <<>>, raised |-> TRUE]
       ELSE [ob |-> s,
             value |->
                [i \in 1..ask_count |->
                    LET price == s.ask_prices_sorted[ask_count + 1 - i]
                    IN <<price, 0, s.asks[price]>>]
                \o
                [i \in 1..bid_count |->
                    LET price == s.bid_prices_sorted[i]
                    IN <<price, s.bids[price], 0>>],
             raised |-> FALSE]

----------------------------------------------------------------------------
(* Binned ladder, flow merge and the artifact pushed to the renderer *)

\* (price // bin_size) * bin_size + bin_size / 2
BinCenter(price, bin_size) ==
    FAdd(FMul(FFloorDiv(price, bin_size), bin_size), FDiv(bin_size, Two))

\* the average taken with // for /
MidOf_floor_div(bb, ba) ==
    IF bb > 0 /\ ba > 0 THEN FFloorDiv(FAdd(bb, ba), Two) ELSE IF bb # 0 THEN bb ELSE ba

\* (bb + ba) / 2.0 when both are > 0, else `bb or ba`
MidOf(bb, ba) ==
    IF bb > 0 /\ ba > 0 THEN FDiv(FAdd(bb, ba), Two) ELSE IF bb # 0 THEN bb ELSE ba

mid_price(ob) ==
    LET b == best_bid(ob)
        a == best_ask(b.ob)
    IN [ob |-> a.ob, value |-> MidOf(b.value, a.value)]

\* the quantities of d at the prices P, added to 0.0 one after the other, the
\* highest price last (float addition commutes: with two prices or fewer the
\* order of the loop over the dict does not matter)
RECURSIVE SumQty(_, _)
SumQty(d, P) ==
    IF P = {} THEN 0
    ELSE FAdd(SumQty(d, P \ {SetMax(P)}), d[SetMax(P)])

\* what the loop over d.items() adds to the bin of center bin_center
BinQty(d, bin_center, bin_size) ==
    SumQty(d, {p \in DOMAIN d : BinCenter(p, bin_size) = bin_center})

\* the result list, for the keys of bins in descending order
BinnedLevels(ob, order, bin_size) ==
    [i \in 1..Len(order) |->
        [bin_price |-> order[i],
         bid_qty |-> BinQty(ob.bids, order[i], bin_size),
         ask_qty |-> BinQty(ob.asks, order[i], bin_size)]]

\* the keys of bins
BinsAround(center_bin, bin_size, levels) ==
    {FAdd(center_bin, FMul(IntToFloat(i), bin_size)) : i \in (0 - levels)..levels}

\* get_binned_ladder once mid is known; the list is [] when mid is 0
BinnedAround(ob, mid, bin_size, levels) ==
    IF mid = 0 THEN <<>>
    ELSE BinnedLevels(ob,
                      SortedDesc(BinsAround(BinCenter(mid, bin_size), bin_size, levels)),
                      bin_size)

\* BinnedLevel is a record
get_binned_ladder(ob, bin_size, levels) ==
    LET m == mid_price(ensure_sorted(ob))
    IN [ob |-> m.ob, value |-> BinnedAround(m.ob, m.value, bin_size, levels)]

DictGet(d, k, default) == IF k \in DOMAIN d THEN d[k] ELSE default

\* FlowEngine as a record. Trade timestamps count snapshot intervals
\* (1000 / TicksPerSec ms each), as time.perf_counter() does in the model.
Flows == [trades |-> trades, bid_volume |-> bid_volume, ask_volume |-> ask_volume,
          last_cleanup_time |-> last_cleanup_time]

NewFlows == [trades |-> <<>>, bid_volume |-> EmptyDict, ask_volume |-> EmptyDict,
             last_cleanup_time |-> 0]

SetFlows(fl) ==
    /\ trades' = fl.trades
    /\ bid_volume' = fl.bid_volume
    /\ ask_volume' = fl.ask_volume
    /\ last_cleanup_time' = fl.last_cleanup_time

FlowsAre(fl) ==
    /\ trades = fl.trades
    /\ bid_volume = fl.bid_volume
    /\ ask_volume = fl.ask_volume
    /\ last_cleanup_time = fl.last_cleanup_time

\* window_sec, in snapshot intervals
WindowTicks == WindowSec * TicksPerSec

\* _cleanup_interval, in snapshot intervals
CleanupInterval == TicksPerSec

price_to_bin(price) == BinCenter(price, BinSize)

Max2(a, b) == IF a > b THEN a ELSE b

\* max(0.0, volume.get(bin_price, 0.0) - qty), the key popped when that is 0.0
Subtracted(volume, bin_price, qty) ==
    IF Max2(0, FSub(DictGet(volume, bin_price, 0), qty)) = 0
    THEN DictPop(volume, bin_price)
    ELSE DictSet(volume, bin_price, Max2(0, FSub(DictGet(volume, bin_price, 0), qty)))

\* one turn of the loop of _cleanup_expired: the oldest entry leaves
PopLeft(fl) ==
    IF Head(fl.trades).is_bid
    THEN [fl EXCEPT !.trades = Tail(fl.trades),
                    !.bid_volume = Subtracted(fl.bid_volume, Head(fl.trades).bin_price,
                                              Head(fl.trades).qty)]
    ELSE [fl EXCEPT !.trades = Tail(fl.trades),
                    !.ask_volume = Subtracted(fl.ask_volume, Head(fl.trades).bin_price,
                                              Head(fl.trades).qty)]

RECURSIVE ExpireBefore(_, _)
ExpireBefore(fl, cutoff_ms) ==
    IF fl.trades # <<>> /\ Head(fl.trades).timestamp_ms < cutoff_ms
    THEN ExpireBefore(PopLeft(fl), cutoff_ms)
    ELSE fl

cleanup_expired(fl, now_ms) == ExpireBefore(fl, now_ms - WindowTicks)

\* process_trade taking is_buyer_maker itself for the side: is_bid = is_buyer_maker
Recorded_sides_swapped(fl, trade, bin_price) ==
    IF trade.is_buyer_maker
    THEN [fl EXCEPT !.bid_volume = DictSet(fl.bid_volume, bin_price,
                                           FAdd(DictGet(fl.bid_volume, bin_price, 0),
                                                trade.qty)),
                    !.trades = Append(fl.trades,
                                      [timestamp_ms |-> trade.timestamp_ms,
                                       bin_price |-> bin_price, qty |-> trade.qty,
                                       is_bid |-> TRUE])]
    ELSE [fl EXCEPT !.ask_volume = DictSet(fl.ask_volume, bin_price,
                                           FAdd(DictGet(fl.ask_volume, bin_price, 0),
                                                trade.qty)),
                    !.trades = Append(fl.trades,
                                      [timestamp_ms |-> trade.timestamp_ms,
                                       bin_price |-> bin_price, qty |-> trade.qty,
                                       is_bid |-> FALSE])]

\* process_trade up to `now = time.perf_counter()`
Recorded(fl, trade, bin_price) ==
    IF ~trade.is_buyer_maker
    THEN [fl EXCEPT !.bid_volume = DictSet(fl.bid_volume, bin_price,
                                           FAdd(DictGet(fl.bid_volume, bin_price, 0),
                                                trade.qty)),
                    !.trades = Append(fl.trades,
                                      [timestamp_ms |-> trade.timestamp_ms,
                                       bin_price |-> bin_price, qty |-> trade.qty,
                                       is_bid |-> TRUE])]
    ELSE [fl EXCEPT !.ask_volume = DictSet(fl.ask_volume, bin_price,
                                           FAdd(DictGet(fl.ask_volume, bin_price, 0),
                                                trade.qty)),
                    !.trades = Append(fl.trades,
                                      [timestamp_ms |-> trade.timestamp_ms,
                                       bin_price |-> bin_price, qty |-> trade.qty,
                                       is_bid |-> FALSE])]

\* t is what time.perf_counter() returns
process_trade(fl, trade, t) ==
    IF t - fl.last_cleanup_time > CleanupInterval
    THEN [cleanup_expired(Recorded(fl, trade, price_to_bin(trade.price)),
                          trade.timestamp_ms)
            EXCEPT !.last_cleanup_time = t]
    ELSE Recorded(fl, trade, price_to_bin(trade.price))

get_flow_at_bin(fl, bin_price) ==
    <<DictGet(fl.bid_volume, bin_price, 0), DictGet(fl.ask_volume, bin_price, 0),
      FSub(DictGet(fl.bid_volume, bin_price, 0), DictGet(fl.ask_volume, bin_price, 0))>>

clear(fl) == [fl EXCEPT !.trades = <<>>, !.bid_volume = EmptyDict,
                        !.ask_volume = EmptyDict]

\* the list merge_with_book builds
FlowLevels(fl, binned_levels) ==
    [i \in 1..Len(binned_levels) |->
        LET level == binned_levels[i]
            bid_traded == DictGet(fl.bid_volume, level.bin_price, 0)
            ask_traded == DictGet(fl.ask_volume, level.bin_price, 0)
        IN [price |-> level.bin_price,
            bid_resting_qty |-> level.bid_qty,
            ask_resting_qty |-> level.ask_qty,
            bid_traded_qty |-> bid_traded,
            ask_traded_qty |-> ask_traded,
            delta_qty |-> FSub(bid_traded, ask_traded)]]

\* merge_with_book that forgets the flow of the bins it has reported
merge_with_book_consuming(fl, binned_levels) ==
    [fl |-> [fl EXCEPT !.bid_volume = EmptyDict, !.ask_volume = EmptyDict],
     value |-> FlowLevels(fl, binned_levels)]

\* [fl, value]: the engine after the call and the list returned
merge_with_book(fl, binned_levels) ==
    [fl |-> fl, value |-> FlowLevels(fl, binned_levels)]

----------------------------------------------------------------------------
(* BinanceClient as a record, and its methods as functions of it *)

Client == [running |-> running, snapshot_loaded |-> snapshot_loaded,
           buffered_updates |-> buffered_updates,
           last_snapshot_time |-> last_snapshot_time,
           update_count |-> update_count, update_count_last |-> update_count_last,
           rate_calc_time |-> rate_calc_time, updates_per_sec |-> updates_per_sec,
           snapshot_queue |-> snapshot_queue, debug_depth_count |-> debug_depth_count]

\* the client constructed when perf_counter() is t
NewClient(t) ==
    [running |-> FALSE, snapshot_loaded |-> FALSE, buffered_updates |-> <<>>,
     last_snapshot_time |-> 0, update_count |-> 0, update_count_last |-> 0,
     rate_calc_time |-> t, updates_per_sec |-> <<0, 1>>, snapshot_queue |-> <<>>,
     debug_depth_count |-> 0]

\* _process_depth_update counting every diff it passes to apply_update
process_depth_update_counts_rejected(c, ob, data) ==
    LET counted == [c EXCEPT !.debug_depth_count = @ + 1]
    IN IF ~c.snapshot_loaded
       THEN [c |-> [counted EXCEPT !.buffered_updates = Append(@, data)],
             ob |-> ob, applied |-> "None", raised |-> FALSE]
       ELSE LET r == apply_update(ob, data)
            IN [c |-> IF r.ret \in {"True", "False"}
                      THEN [counted EXCEPT !.update_count = @ + 1]
                      ELSE counted,
                ob |-> r.ob, applied |-> r.ret, raised |-> r.ret = "raised"]

\* _process_depth_update putting a diff it buffers before the ones it holds
process_depth_update_prepends(c, ob, data) ==
    LET counted == [c EXCEPT !.debug_depth_count = @ + 1]
    IN IF ~c.snapshot_loaded
       THEN [c |-> [counted EXCEPT !.buffered_updates = <<data>> \o @],
             ob |-> ob, applied |-> "None", raised |-> FALSE]
       ELSE LET r == apply_update(ob, data)
            IN [c |-> IF r.ret = "True"
                      THEN [counted EXCEPT !.update_count = @ + 1]
                      ELSE counted,
                ob |-> r.ob, applied |-> r.ret, raised |-> r.ret = "raised"]

\* [c, ob, applied, raised]: applied is what apply_update returned, "None" when
\* it was not called
process_depth_update(c, ob, data) ==
    LET counted == [c EXCEPT !.debug_depth_count = @ + 1]
    IN IF ~c.snapshot_loaded
       THEN [c |-> [counted EXCEPT !.buffered_updates = Append(@, data)],
             ob |-> ob, applied |-> "None", raised |-> FALSE]
       ELSE LET r == apply_update(ob, data)
            IN [c |-> IF r.ret = "True"
                      THEN [counted EXCEPT !.update_count = @ + 1]
                      ELSE counted,
                ob |-> r.ob, applied |-> r.ret, raised |-> r.ret = "raised"]

\* Queue.put_nowait of a queue without maxsize
put_nowait_unbounded(q, item) == [q |-> Append(q, item), raised |-> "None"]

\* Queue.put_nowait: [q, raised], raised "Full" or "None"
put_nowait(q, item) ==
    IF Len(q) >= QueueMaxSize THEN [q |-> q, raised |-> "Full"]
    ELSE [q |-> Append(q, item), raised |-> "None"]

\* Queue.get_nowait: [q, item, raised], raised "Empty" or "None", item <<x>>
\* for the artifact x
get_nowait(q) ==
    IF q = <<>> THEN [q |-> q, item |-> <<>>, raised |-> "Empty"]
    ELSE [q |-> Tail(q), item |-> <<Head(q)>>, raised |-> "None"]

\* the bare `except:` around the second get_nowait and put_nowait
InnerExceptCatches(exc) == TRUE

\* every artifact in the queue holding the one list of levels that the
\* builder overwrites for the newest artifact
PutDroppingOldest_shares_levels(q, snapshot) ==
    LET shared == [i \in 1..Len(q) |-> [q[i] EXCEPT !.levels = snapshot.levels]]
    IN IF Len(q) < QueueMaxSize THEN Append(shared, snapshot)
       ELSE Append(Tail(shared), snapshot)

\* queue.put_nowait, and on queue.Full get_nowait then put_nowait
PutDroppingOldest(q, snapshot) ==
    IF Len(q) < QueueMaxSize THEN Append(q, snapshot) ELSE Append(Tail(q), snapshot)

\* the rolling update rate, recomputed when 1.0 s has passed
rate_updated(c, t) ==
    IF t - c.rate_calc_time >= TicksPerSec
    THEN [c EXCEPT !.updates_per_sec =
                       <<(c.update_count - c.update_count_last) * TicksPerSec,
                         t - c.rate_calc_time>>,
                   !.update_count_last = c.update_count,
                   !.rate_calc_time = t]
    ELSE c

\* the spread taken as best_bid - best_ask
SpreadBps_bid_minus_ask(bb, ba, mid) ==
    IF mid > 0 THEN <<(bb - ba) * 10000, mid>> ELSE <<0, 1>>

\* ((best_ask - best_bid) / mid * 10000) if mid > 0 else 0.0, a fraction <<n, d>>
SpreadBps(bb, ba, mid) ==
    IF mid > 0 THEN <<(ba - bb) * 10000, mid>> ELSE <<0, 1>>

DOMSnapshot(flow_levels, bb, ba, mid, t, rate) ==
    [symbol |-> "BNBUSDT",
     best_bid |-> bb,
     best_ask |-> ba,
     mid_price |-> mid,
     spread_bps |-> SpreadBps(bb, ba, mid),
     levels |-> flow_levels,
     timestamp_ms |-> t,
     updates_per_sec |-> rate]

\* the queries made after get_binned_ladder and the artifact built from them:
\* [c, ob, snapshot]
SnapshotBuilt(c, t, flow_levels, bb, ba, m) ==
    [c |-> c, ob |-> m.ob,
     snapshot |-> DOMSnapshot(flow_levels, bb.value, ba.value, m.value, t,
                              c.updates_per_sec)]

SnapshotAsk(c, t, flow_levels, bb, ba) ==
    SnapshotBuilt(c, t, flow_levels, bb, ba, mid_price(ba.ob))

SnapshotBid(c, t, flow_levels, bb) ==
    SnapshotAsk(c, t, flow_levels, bb, best_ask(bb.ob))

SnapshotBinned(c, fl, t, binned) ==
    SnapshotBid(c, t, merge_with_book(fl, binned.value).value, best_bid(binned.ob))

\* _maybe_push_snapshot from `self._last_snapshot_time = now` to the artifact
build_snapshot(c, ob, fl, t) ==
    SnapshotBinned(rate_updated([c EXCEPT !.last_snapshot_time = t], t), fl, t,
                   get_binned_ladder(ob, BinSize, Levels))

\* the puts of _maybe_push_snapshot, nothing else touching the queue meanwhile
PutBuilt(b) ==
    [c |-> [b.c EXCEPT !.snapshot_queue = PutDroppingOldest(@, b.snapshot)],
     ob |-> b.ob]

\* the first put_nowait of _maybe_push_snapshot: [c, ob, snapshot, full]
FirstPut(b) ==
    [c |-> [b.c EXCEPT !.snapshot_queue = put_nowait(@, b.snapshot).q],
     ob |-> b.ob, snapshot |-> <<b.snapshot>>,
     full |-> put_nowait(b.c.snapshot_queue, b.snapshot).raised = "Full"]

\* _maybe_push_snapshot up to its first put_nowait: [c, ob, snapshot, full],
\* snapshot <<x>> for the artifact x, <<>> when the interval has not elapsed
try_push_snapshot(c, ob, fl, t) ==
    IF t - c.last_snapshot_time < 1
    THEN [c |-> c, ob |-> ob, snapshot |-> <<>>, full |-> FALSE]
    ELSE FirstPut(build_snapshot(c, ob, fl, t))

\* an artifact for every message, whatever time has passed
maybe_push_snapshot_every_message(c, ob, fl, t) ==
    PutBuilt(build_snapshot(c, ob, fl, t))

\* _maybe_push_snapshot when perf_counter() is t: [c, ob]
maybe_push_snapshot(c, ob, fl, t) ==
    IF t - c.last_snapshot_time < 1 THEN [c |-> c, ob |-> ob]
    ELSE PutBuilt(build_snapshot(c, ob, fl, t))

\* the artifact built from the book as it was before the diff
handle_depth_message_builds_first(c, ob, fl, data, t) ==
    LET d == process_depth_update(c, ob, data)
        p == maybe_push_snapshot(d.c, ob, fl, t)
    IN IF d.raised THEN d
       ELSE [c |-> p.c, ob |-> d.ob, applied |-> d.applied, raised |-> FALSE]

\* _handle_ws_message for a message of the depth stream: [c, ob, applied, raised]
handle_depth_message(c, ob, fl, data, t) ==
    LET d == process_depth_update(c, ob, data)
        p == maybe_push_snapshot(d.c, d.ob, fl, t)
    IN IF d.raised THEN d
       ELSE [c |-> p.c, ob |-> p.ob, applied |-> d.applied, raised |-> FALSE]

\* a call of a method of the book, as book_calls records it
BookCall(op, data) == [op |-> op, data |-> data]

\* how the loop of ReplayBuffered goes on after apply_update(Head(updates))
\* returned r and the rest of the loop returned rest
Replayed(r, rest, update) ==
    [ob |-> rest.ob, raised |-> rest.raised,
     calls |-> <<BookCall("apply_update", update)>> \o rest.calls]

RECURSIVE ReplayNewestFirst(_, _)
\* _process_trade that builds the Trade and does not pass it to the engine
process_trade_message_drops(fl, data, t) ==
    [fl |-> fl, raised |-> data.p \notin NumericStrs \/ data.q \notin NumericStrs]

\* _process_trade(data): [fl, raised]; float() raises on a string that is
\* not numeric
process_trade_message(fl, data, t) ==
    IF data.p \notin NumericStrs \/ data.q \notin NumericStrs
    THEN [fl |-> fl, raised |-> TRUE]
    ELSE [fl |-> process_trade(fl, [price |-> FloatOf(data.p), qty |-> FloatOf(data.q),
                                    is_buyer_maker |-> data.m,
                                    timestamp_ms |-> data.T], t),
          raised |-> FALSE]

\* _handle_ws_message once _process_trade has returned d: [c, ob, fl, raised]
AfterTrade(c, ob, d, t) ==
    IF d.raised THEN [c |-> c, ob |-> ob, fl |-> d.fl, raised |-> TRUE]
    ELSE [c |-> maybe_push_snapshot(c, ob, d.fl, t).c,
          ob |-> maybe_push_snapshot(c, ob, d.fl, t).ob,
          fl |-> d.fl, raised |-> FALSE]

\* _handle_ws_message for a message of the trade stream
handle_trade_message(c, ob, fl, data, t) ==
    AfterTrade(c, ob, process_trade_message(fl, data, t), t)

\* the loop of run() over _buffered_updates started from the newest one
ReplayNewestFirst(ob, updates) ==
    IF updates = <<>> THEN [ob |-> ob, raised |-> FALSE, calls |-> <<>>]
    ELSE IF apply_update(ob, updates[Len(updates)]).ret = "raised"
    THEN [ob |-> apply_update(ob, updates[Len(updates)]).ob, raised |-> TRUE,
          calls |-> <<BookCall("apply_update", updates[Len(updates)])>>]
    ELSE Replayed(apply_update(ob, updates[Len(updates)]),
                  ReplayNewestFirst(apply_update(ob, updates[Len(updates)]).ob,
                                    SubSeq(updates, 1, Len(updates) - 1)),
                  updates[Len(updates)])

\* the loop of run() over _buffered_updates: [ob, raised, calls], calls the
\* calls of apply_update it made
RECURSIVE ReplayBuffered(_, _)
ReplayBuffered(ob, updates) ==
    IF updates = <<>> THEN [ob |-> ob, raised |-> FALSE, calls |-> <<>>]
    ELSE IF apply_update(ob, Head(updates)).ret = "raised"
    THEN [ob |-> apply_update(ob, Head(updates)).ob, raised |-> TRUE,
          calls |-> <<BookCall("apply_update", Head(updates))>>]
    ELSE Replayed(apply_update(ob, Head(updates)),
                  ReplayBuffered(apply_update(ob, Head(updates)).ob, Tail(updates)),
                  Head(updates))

\* what run() returns to the model once load_snapshot returned l and the
\* replay r: [c, ob, raised, loaded, calls]
AfterReplay(live, l, r, snapshot_data) ==
    IF r.raised
    THEN [c |-> live, ob |-> r.ob, raised |-> TRUE, loaded |-> TRUE,
          calls |-> <<BookCall("load_snapshot", snapshot_data)>> \o r.calls]
    ELSE [c |-> [live EXCEPT !.buffered_updates = <<>>],
          ob |-> r.ob, raised |-> FALSE, loaded |-> TRUE,
          calls |-> <<BookCall("load_snapshot", snapshot_data)>> \o r.calls]

\* run() from load_snapshot to ws_connect, with _snapshot_loaded set before
\* the call of load_snapshot
run_flag_before_load(c, ob, snapshot_data) ==
    LET l == load_snapshot(ob, snapshot_data)
        live == [c EXCEPT !.snapshot_loaded = TRUE]
    IN IF l.ret = "raised"
       THEN [c |-> live, ob |-> l.ob, raised |-> TRUE, loaded |-> FALSE,
             calls |-> <<BookCall("load_snapshot", snapshot_data)>>]
       ELSE AfterReplay(live, l, ReplayBuffered(l.ob, c.buffered_updates),
                        snapshot_data)

\* run() once _fetch_snapshot has returned snapshot_data, up to ws_connect:
\* [c, ob, raised, loaded, calls], loaded whether load_snapshot returned,
\* calls the calls of the book it made
run_load_and_replay(c, ob, snapshot_data) ==
    LET l == load_snapshot(ob, snapshot_data)
        live == [c EXCEPT !.snapshot_loaded = TRUE]
    IN IF l.ret = "raised"
       THEN [c |-> c, ob |-> l.ob, raised |-> TRUE, loaded |-> FALSE,
             calls |-> <<BookCall("load_snapshot", snapshot_data)>>]
       ELSE AfterReplay(live, l, ReplayBuffered(l.ob, c.buffered_updates),
                        snapshot_data)

SetClient(c) ==
    /\ running' = c.running
    /\ snapshot_loaded' = c.snapshot_loaded
    /\ buffered_updates' = c.buffered_updates
    /\ last_snapshot_time' = c.last_snapshot_time
    /\ update_count' = c.update_count
    /\ update_count_last' = c.update_count_last
    /\ rate_calc_time' = c.rate_calc_time
    /\ updates_per_sec' = c.updates_per_sec
    /\ snapshot_queue' = c.snapshot_queue
    /\ debug_depth_count' = c.debug_depth_count

ClientIs(c) ==
    /\ running = c.running
    /\ snapshot_loaded = c.snapshot_loaded
    /\ buffered_updates = c.buffered_updates
    /\ last_snapshot_time = c.last_snapshot_time
    /\ update_count = c.update_count
    /\ update_count_last = c.update_count_last
    /\ rate_calc_time = c.rate_calc_time
    /\ updates_per_sec = c.updates_per_sec
    /\ snapshot_queue = c.snapshot_queue
    /\ debug_depth_count = c.debug_depth_count

\* result before any query: the argument, the value returned, perf_counter()
\* at the call and the engine before it
NoResult == [arg |-> <<>>, value |-> <<>>, at |-> 0, before |-> NewFlows]

\* the client and its flow engine as constructed, run() not called
FeedIdle ==
    /\ ClientIs(NewClient(0))
    /\ FlowsAre(NewFlows)
    /\ pc = "init"
    /\ now = 0
    /\ applied = "None"
    /\ loads = 0
    /\ result = NoResult
    /\ book_calls = <<>>
    /\ push_pc = "idle"
    /\ pushing = <<>>
    /\ built = <<>>
    /\ poll_pc = "idle"
    /\ latest = <<>>
    /\ last_snapshot = <<>>
    /\ float_bits = FloatBits
    /\ stop_called = FALSE

----------------------------------------------------------------------------
(* The messages the book is called with *)
Ids == 0..MaxId

OptIds == {<<>>} \cup {<<i>> : i \in Ids}

Entries == PriceStrs \X QtyStrs

EntryLists(E, n) == UNION {[1..k -> E] : k \in 0..n}

\* the two sides <<bids, asks>> of one message of at most n entries
Sides(E, n) == {s \in EntryLists(E, n) \X EntryLists(E, n) : Len(s[1]) + Len(s[2]) <= n}

NoSides == <<<<>>, <<>>>>

Snapshot(i, s) == [lastUpdateId |-> i, bids |-> s[1], asks |-> s[2]]

Update(f, l, s) == [U |-> f, u |-> l, b |-> s[1], a |-> s[2]]

\* apply_update returns before it reads b and a when the ids make the update a
\* gap or stale: all messages with those ids then behave as one.
ReadsChanges(ob, f, l) ==
    LET first_id == IF f = <<>> THEN l ELSE f[1]
    IN first_id <= ob.last_update_id + 1 /\ l > ob.last_update_id

----------------------------------------------------------------------------
(* SpecBook: the book alone, its methods called in any order *)
SetBook(ob) ==
    /\ bids' = ob.bids
    /\ asks' = ob.asks
    /\ last_update_id' = ob.last_update_id
    /\ bid_prices_sorted' = ob.bid_prices_sorted
    /\ ask_prices_sorted' = ob.ask_prices_sorted
    /\ dirty' = ob.dirty

BookIs(ob) ==
    /\ bids = ob.bids
    /\ asks = ob.asks
    /\ last_update_id = ob.last_update_id
    /\ bid_prices_sorted = ob.bid_prices_sorted
    /\ ask_prices_sorted = ob.ask_prices_sorted
    /\ dirty = ob.dirty

NoCall == Update(<<>>, 0, NoSides)

InitBook ==
    /\ BookIs(NewBook)
    /\ lastOp = "init"
    /\ ret = "None"
    /\ pre = NewBook
    /\ msg = NoCall
    /\ calls = 0
    /\ FeedIdle

BookSides == Sides(Entries, MaxChanges)

LoadSnapshot ==
    \E i \in Ids, s \in BookSides :
        LET r == load_snapshot(Book, Snapshot(i, s))
        IN /\ SetBook(r.ob)
           /\ lastOp' = "load_snapshot"
           /\ ret' = r.ret
           /\ UNCHANGED <<callVars, feedVars>>

ApplyUpdate ==
    \E f \in OptIds, l \in Ids :
        \E s \in IF ReadsChanges(Book, f, l) THEN BookSides ELSE {NoSides} :
            LET r == apply_update(Book, Update(f, l, s))
            IN /\ SetBook(r.ob)
               /\ lastOp' = "apply_update"
               /\ ret' = r.ret
               /\ UNCHANGED <<callVars, feedVars>>

BestBid ==
    /\ SetBook(best_bid(Book).ob)
    /\ lastOp' = "best_bid"
    /\ ret' = "None"
    /\ UNCHANGED <<callVars, feedVars>>

BestAsk ==
    /\ SetBook(best_ask(Book).ob)
    /\ lastOp' = "best_ask"
    /\ ret' = "None"
    /\ UNCHANGED <<callVars, feedVars>>

GetLadder ==
    \E levels \in 0..MaxLevels :
        LET r == get_ladder(Book, levels)
        IN /\ SetBook(r.ob)
           /\ lastOp' = "get_ladder"
           /\ ret' = IF r.raised THEN "raised" ELSE "None"
           /\ UNCHANGED <<callVars, feedVars>>

NextBook ==
    \/ LoadSnapshot
    \/ ApplyUpdate
    \/ BestBid
    \/ BestAsk
    \/ GetLadder

SpecBook == InitBook /\ [][NextBook]_vars

----------------------------------------------------------------------------
(* SpecCall: one call of load_snapshot or apply_update, with any message, on  *)
(* a book that a snapshot has seeded; apply_update is then called once more   *)
(* with the same message.                                                     *)
SeedEntries == PriceStrs \X {"1", "2"}

SeedBooks == {load_snapshot(NewBook, Snapshot(i, s)).ob :
                i \in Ids, s \in Sides(SeedEntries, MaxSeed)}

CallSides == Sides(Entries, MaxEntries)

\* a message for each side that apply_update does not read
UnreadSides == {NoSides, <<<<<<"1", "2">>>>, <<<<"2", "0">>>>>>}

SnapshotsOn(ob) == {Snapshot(i, s) : i \in Ids, s \in CallSides}

UpdatesOn(ob) ==
    UNION {{Update(f, l, s) :
                s \in IF ReadsChanges(ob, f, l) THEN CallSides ELSE UnreadSides} :
           f \in OptIds, l \in Ids}

InitCall ==
    /\ pre \in SeedBooks
    /\ BookIs(pre)
    /\ lastOp \in {"load_snapshot", "apply_update"}
    /\ msg \in IF lastOp = "load_snapshot"
               THEN {Update(<<>>, d.lastUpdateId, <<d.bids, d.asks>>) : d \in SnapshotsOn(pre)}
               ELSE UpdatesOn(pre)
    /\ ret = "None"
    /\ calls = 0
    /\ FeedIdle

CallLoadSnapshot ==
    /\ calls = 0
    /\ lastOp = "load_snapshot"
    /\ LET r == load_snapshot(Book, Snapshot(msg.u, <<msg.b, msg.a>>))
       IN /\ SetBook(r.ob)
          /\ ret' = r.ret
    /\ calls' = 1
    /\ UNCHANGED <<lastOp, pre, msg, modeVars, feedVars>>

CallApplyUpdate ==
    /\ calls = 0
    /\ lastOp = "apply_update"
    /\ LET r == apply_update(Book, msg)
       IN /\ SetBook(r.ob)
          /\ ret' = r.ret
    /\ calls' = 1
    /\ UNCHANGED <<lastOp, pre, msg, modeVars, feedVars>>

CallApplyUpdateAgain ==
    /\ calls = 1
    /\ lastOp = "apply_update"
    /\ LET r == apply_update(Book, msg)
       IN /\ SetBook(r.ob)
          /\ ret' = r.ret
    /\ calls' = 2
    /\ UNCHANGED <<lastOp, pre, msg, modeVars, feedVars>>

NextCall ==
    \/ CallLoadSnapshot
    \/ CallApplyUpdate
    \/ CallApplyUpdateAgain

SpecCall == InitCall /\ [][NextCall]_vars

----------------------------------------------------------------------------
(* SpecClient: one run() of the client against the exchange; stop() is called *)
(* from the thread of the window, the clock advances between the messages.    *)
FeedEntries == PriceStrs \X {"0", "1", "x"}

FeedSides == Sides(FeedEntries, MaxFeedChanges)

InitClient ==
    /\ BookIs(NewBook)
    /\ lastOp = "init"
    /\ ret = "None"
    /\ pre = NewBook
    /\ msg = NoCall
    /\ calls = 0
    /\ FeedIdle

\* self._running = True, up to `await self._fetch_snapshot(session)`
Run ==
    /\ pc = "init"
    /\ running' = TRUE
    /\ pc' = "fetch"
    /\ UNCHANGED <<bookVars, lastOp, ret, callVars, flowVars, auxVars, now, applied, loads,
                   snapshot_loaded, buffered_updates, last_snapshot_time,
                   update_count, update_count_last, rate_calc_time,
                   updates_per_sec, snapshot_queue, debug_depth_count>>

\* the request fails: raise_for_status(), the connection or json_loads raises
FetchSnapshotFails ==
    /\ pc = "fetch"
    /\ pc' = "failed"
    /\ UNCHANGED <<bookVars, lastOp, ret, callVars, clientVars, flowVars, auxVars,
                   now, applied, loads>>

\* _fetch_snapshot returns data: load_snapshot, the replay of the buffer, up to
\* `session.ws_connect(ws_url)`
FetchSnapshotReturns ==
    /\ pc = "fetch"
    /\ \E i \in Ids, s \in FeedSides :
        \E r \in {run_load_and_replay(Client, Book, Snapshot(i, s))} :
           /\ SetClient(r.c)
           /\ SetBook(r.ob)
           /\ loads' = IF r.loaded THEN loads + 1 ELSE loads
           /\ applied' = IF r.loaded THEN "None" ELSE applied
           /\ pc' = IF r.raised THEN "failed" ELSE "connect"
    /\ UNCHANGED <<lastOp, ret, callVars, flowVars, auxVars, now>>

\* the stream is open: self._last_snapshot_time = time.perf_counter()
WsConnect ==
    /\ pc = "connect"
    /\ last_snapshot_time' = now
    /\ pc' = "recv"
    /\ UNCHANGED <<bookVars, lastOp, ret, callVars, flowVars, auxVars, now, applied, loads,
                   running, snapshot_loaded, buffered_updates, update_count,
                   update_count_last, rate_calc_time, updates_per_sec,
                   snapshot_queue, debug_depth_count>>

WsConnectFails ==
    /\ pc = "connect"
    /\ pc' = "failed"
    /\ UNCHANGED <<bookVars, lastOp, ret, callVars, clientVars, flowVars, auxVars,
                   now, applied, loads>>

\* the stream opened before the snapshot is fetched: a message of the depth
\* stream is handled while run() awaits _fetch_snapshot as well
RecvDepth_before_load ==
    /\ pc \in {"fetch", "recv"}
    /\ running
    /\ debug_depth_count < MaxDepthMsgs
    /\ \E f \in OptIds, l \in Ids :
        \E s \in IF ReadsChanges(Book, f, l) THEN FeedSides ELSE {NoSides} :
            \E r \in {handle_depth_message(Client, Book, Flows, Update(f, l, s), now)} :
               /\ SetClient(r.c)
               /\ SetBook(r.ob)
               /\ applied' = r.applied
               /\ pc' = IF r.raised THEN "failed" ELSE pc
    /\ UNCHANGED <<lastOp, ret, callVars, flowVars, auxVars, now, loads>>

\* a TEXT message of the depth stream arrives while _running
RecvDepth ==
    /\ pc = "recv"
    /\ running
    /\ debug_depth_count < MaxDepthMsgs
    /\ \E f \in OptIds, l \in Ids :
        \E s \in IF ReadsChanges(Book, f, l) THEN FeedSides ELSE {NoSides} :
            \E r \in {handle_depth_message(Client, Book, Flows, Update(f, l, s), now)} :
               /\ SetClient(r.c)
               /\ SetBook(r.ob)
               /\ applied' = r.applied
               /\ pc' = IF r.raised THEN "failed" ELSE "recv"
    /\ UNCHANGED <<lastOp, ret, callVars, flowVars, auxVars, now, loads>>

\* the trade messages of the feed: buys at one price, of a quantity that may
\* be malformed, stamped with the time of arrival
TradeMsgs(t) == {[p |-> "1", q |-> q, m |-> FALSE, T |-> t] : q \in {"1", "x"}}

\* a TEXT message of the trade stream arrives while _running
RecvTrade ==
    /\ pc = "recv"
    /\ running
    /\ Len(trades) < MaxTradeMsgs
    /\ \E data \in TradeMsgs(now) :
        \E r \in {handle_trade_message(Client, Book, Flows, data, now)} :
           /\ SetClient(r.c)
           /\ SetBook(r.ob)
           /\ SetFlows(r.fl)
           /\ pc' = IF r.raised THEN "failed" ELSE "recv"
    /\ UNCHANGED <<lastOp, ret, callVars, auxVars, now, applied, loads>>

\* a message arrives after stop(): `if not self._running: break`
RecvAfterStop ==
    /\ pc = "recv"
    /\ ~running
    /\ pc' = "done"
    /\ UNCHANGED <<bookVars, lastOp, ret, callVars, clientVars, flowVars, auxVars,
                   now, applied, loads>>

\* a message of type ERROR arrives, or the stream closes
WsEnds ==
    /\ pc = "recv"
    /\ pc' = "done"
    /\ UNCHANGED <<bookVars, lastOp, ret, callVars, clientVars, flowVars, auxVars,
                   now, applied, loads>>

\* stop(), called from the thread of the window
Stop ==
    /\ running
    /\ running' = FALSE
    /\ UNCHANGED <<bookVars, lastOp, ret, callVars, flowVars, auxVars, runVars,
                   snapshot_loaded, buffered_updates, last_snapshot_time,
                   update_count, update_count_last, rate_calc_time,
                   updates_per_sec, snapshot_queue, debug_depth_count>>

\* one snapshot interval passes
Tick ==
    /\ now < MaxTime
    /\ now' = now + 1
    /\ UNCHANGED <<bookVars, lastOp, ret, callVars, clientVars, flowVars, auxVars,
                   pc, applied, loads>>

NextClient ==
    \/ Run
    \/ FetchSnapshotFails
    \/ FetchSnapshotReturns
    \/ WsConnect
    \/ WsConnectFails
    \/ RecvDepth
    \/ RecvTrade
    \/ RecvAfterStop
    \/ WsEnds
    \/ Stop
    \/ Tick

SpecClient == InitClient /\ [][NextClient]_vars

----------------------------------------------------------------------------
(* SpecMethods: the methods of a constructed client called one by one.      *)
(* _process_depth_update is called with a diff at any moment, before run()  *)
(* has loaded the snapshot as well as after; run() itself goes as far as    *)
(* ws_connect. Between load_snapshot and ws_connect run() has no await, so  *)
(* no other call falls in between.                                          *)
MethodSides == {NoSides, <<<<<<"1", "1">>>>, <<>>>>, <<<<>>, <<<<"2", "x">>>>>>}

\* the diffs: U is absent or not above u
MethodUpdates ==
    {m \in {Update(f, l, s) : f \in OptIds, l \in Ids, s \in MethodSides} :
        m.U = <<>> \/ m.U[1] <= m.u}

InitMethods == InitClient

\* _process_depth_update(data), called MaxMethodCalls times at most
CallProcessDepthUpdate ==
    /\ debug_depth_count < MaxMethodCalls
    /\ \E data \in MethodUpdates :
        \E r \in {process_depth_update(Client, Book, data)} :
           /\ SetClient(r.c)
           /\ SetBook(r.ob)
           /\ applied' = r.applied
           /\ msg' = data
           /\ ret' = IF r.raised THEN "raised" ELSE "None"
           /\ book_calls' = IF snapshot_loaded
                            THEN Append(book_calls, BookCall("apply_update", data))
                            ELSE book_calls
    /\ lastOp' = "_process_depth_update"
    /\ UNCHANGED <<pre, calls, modeVars, flowVars, pc, now, loads, result,
                   queueVars>>

\* run() from _fetch_snapshot returning data up to ws_connect
RunLoadsSnapshot ==
    /\ pc = "fetch"
    /\ \E i \in Ids, s \in MethodSides :
        \E r \in {run_load_and_replay(Client, Book, Snapshot(i, s))} :
           /\ SetClient(r.c)
           /\ SetBook(r.ob)
           /\ loads' = IF r.loaded THEN loads + 1 ELSE loads
           /\ applied' = IF r.loaded THEN "None" ELSE applied
           /\ pc' = IF r.raised THEN "failed" ELSE "connect"
           /\ msg' = Snapshot(i, s)
           /\ ret' = IF r.raised THEN "raised" ELSE "None"
           /\ book_calls' = book_calls \o r.calls
    /\ lastOp' = "run"
    /\ UNCHANGED <<pre, calls, modeVars, flowVars, now, result, queueVars>>

NextMethods ==
    \/ Run
    \/ CallProcessDepthUpdate
    \/ RunLoadsSnapshot

SpecMethods == InitMethods /\ [][NextMethods]_vars

----------------------------------------------------------------------------
(* SpecCounter: the methods of a constructed client that the counter of     *)
(* applied diffs depends on, called one by one: _process_depth_update with  *)
(* a diff before and after run() has loaded the snapshot, the load and the  *)
(* replay of run(), and _process_trade.                                     *)
CounterSnapshots == {Snapshot(1, <<<<<<"1", "1">>>>, <<<<"2", "1">>>>>>)}

\* after the snapshot of id 1: two diffs that follow it one after the other,
\* a stale one, and one that is a gap
CounterDiffs ==
    {Update(<<2>>, 2, <<<<<<"1", "2">>>>, <<>>>>),
     Update(<<3>>, 3, <<<<>>, <<<<"2", "2">>>>>>),
     Update(<<>>, 1, NoSides),
     Update(<<5>>, 5, NoSides)}

InitCounter == InitClient

\* _process_depth_update(data), called MaxCounterCalls times at most
CounterProcessDepthUpdate ==
    /\ debug_depth_count < MaxCounterCalls
    /\ \E data \in CounterDiffs :
        \E r \in {process_depth_update(Client, Book, data)} :
           /\ SetClient(r.c)
           /\ SetBook(r.ob)
           /\ applied' = r.applied
           /\ msg' = data
           /\ ret' = IF r.raised THEN "raised" ELSE "None"
    /\ lastOp' = "_process_depth_update"
    /\ UNCHANGED <<pre, calls, modeVars, flowVars, pc, now, loads, auxVars>>

\* run() from _fetch_snapshot returning data up to ws_connect
CounterLoadsSnapshot ==
    /\ pc = "fetch"
    /\ \E data \in CounterSnapshots :
        \E r \in {run_load_and_replay(Client, Book, data)} :
           /\ SetClient(r.c)
           /\ SetBook(r.ob)
           /\ loads' = IF r.loaded THEN loads + 1 ELSE loads
           /\ applied' = IF r.loaded THEN "None" ELSE applied
           /\ pc' = IF r.raised THEN "failed" ELSE "connect"
           /\ msg' = data
           /\ ret' = IF r.raised THEN "raised" ELSE "None"
    /\ lastOp' = "run"
    /\ UNCHANGED <<pre, calls, modeVars, flowVars, now, auxVars>>

\* _process_trade(data), for the trade messages of the feed
CounterProcessTrade ==
    /\ Len(trades) < MaxTradeMsgs
    /\ \E data \in TradeMsgs(now) :
        \E r \in {process_trade_message(Flows, data, now)} :
           /\ SetFlows(r.fl)
           /\ ret' = IF r.raised THEN "raised" ELSE "None"
    /\ lastOp' = "_process_trade"
    /\ UNCHANGED <<bookVars, callVars, clientVars, auxVars, runVars>>

NextCounter ==
    \/ Run
    \/ CounterProcessDepthUpdate
    \/ CounterLoadsSnapshot
    \/ CounterProcessTrade

SpecCounter == InitCounter /\ [][NextCounter]_vars

----------------------------------------------------------------------------
(* SpecQueue: the feed thread publishes artifacts while the thread of the   *)
(* window polls them (gui.py runs the feed in a thread of its own). The     *)
(* methods of queue.Queue are atomic; the threads interleave between them.  *)
(* The client is Live on a book of one bid and one ask; the diffs that      *)
(* arrive are stale ones, which apply_update absorbs.                       *)
QueueSnapshot == Snapshot(1, <<<<<<"1", "1">>>>, <<<<"2", "1">>>>>>)

QueueDiff == Update(<<>>, 1, NoSides)

InitQueue ==
    /\ BookIs(load_snapshot(NewBook, QueueSnapshot).ob)
    /\ lastOp = "load_snapshot"
    /\ ret = "None"
    /\ pre = NewBook
    /\ msg = NoCall
    /\ calls = 0
    /\ ClientIs([NewClient(0) EXCEPT !.running = TRUE, !.snapshot_loaded = TRUE])
    /\ FlowsAre(NewFlows)
    /\ pc = "recv"
    /\ now = 0
    /\ applied = "None"
    /\ loads = 1
    /\ result = NoResult
    /\ book_calls = <<>>
    /\ push_pc = "idle"
    /\ pushing = <<>>
    /\ built = <<>>
    /\ poll_pc = "idle"
    /\ latest = <<>>
    /\ last_snapshot = <<>>
    /\ float_bits = FloatBits
    /\ stop_called = FALSE

\* feed thread: a depth message arrives; _handle_ws_message up to the return
\* of the first put_nowait of _maybe_push_snapshot
QueueRecv ==
    /\ pc = "recv"
    /\ push_pc = "idle"
    /\ debug_depth_count < MaxQueueMsgs
    /\ \E d \in {process_depth_update(Client, Book, QueueDiff)} :
        \E p \in {try_push_snapshot(d.c, d.ob, Flows, now)} :
           /\ SetClient(p.c)
           /\ SetBook(p.ob)
           /\ applied' = d.applied
           /\ built' = IF p.snapshot = <<>> THEN built ELSE p.snapshot
           /\ push_pc' = IF p.full THEN "full" ELSE "idle"
           /\ pushing' = IF p.full THEN p.snapshot ELSE <<>>
    /\ UNCHANGED <<lastOp, ret, callVars, flowVars, pc, now, loads, result,
                   book_calls, poll_pc, latest, last_snapshot>>

\* feed thread, after queue.Full: self.snapshot_queue.get_nowait()
QueueDropOldest ==
    /\ push_pc = "full"
    /\ \E g \in {get_nowait(snapshot_queue)} :
           /\ snapshot_queue' = g.q
           /\ push_pc' = IF g.raised = "None" THEN "got" ELSE "idle"
           /\ pushing' = IF g.raised = "None" THEN pushing ELSE <<>>
           /\ pc' = IF g.raised # "None" /\ ~InnerExceptCatches(g.raised)
                    THEN "failed" ELSE pc
    /\ UNCHANGED <<bookVars, lastOp, ret, callVars, flowVars, now, applied, loads,
                   result, book_calls, built, poll_pc, latest, last_snapshot,
                   running, snapshot_loaded, buffered_updates, last_snapshot_time,
                   update_count, update_count_last, rate_calc_time,
                   updates_per_sec, debug_depth_count>>

\* feed thread: self.snapshot_queue.put_nowait(snapshot) after the get_nowait
QueuePutNewest ==
    /\ push_pc = "got"
    /\ \E p \in {put_nowait(snapshot_queue, pushing[1])} :
           /\ snapshot_queue' = p.q
           /\ pc' = IF p.raised # "None" /\ ~InnerExceptCatches(p.raised)
                    THEN "failed" ELSE pc
    /\ push_pc' = "idle"
    /\ pushing' = <<>>
    /\ UNCHANGED <<bookVars, lastOp, ret, callVars, flowVars, now, applied, loads,
                   result, book_calls, built, poll_pc, latest, last_snapshot,
                   running, snapshot_loaded, buffered_updates, last_snapshot_time,
                   update_count, update_count_last, rate_calc_time,
                   updates_per_sec, debug_depth_count>>

\* window thread: the timer fires, _poll_snapshots sets latest = None
PollStart ==
    /\ poll_pc = "idle"
    /\ poll_pc' = "draining"
    /\ latest' = <<>>
    /\ UNCHANGED <<bookVars, lastOp, ret, callVars, clientVars, flowVars, runVars,
                   result, book_calls, push_pc, pushing, built, last_snapshot>>

\* window thread: get_nowait returns an artifact
PollGet ==
    /\ poll_pc = "draining"
    /\ get_nowait(snapshot_queue).raised = "None"
    /\ latest' = get_nowait(snapshot_queue).item
    /\ snapshot_queue' = get_nowait(snapshot_queue).q
    /\ UNCHANGED <<bookVars, lastOp, ret, callVars, flowVars, runVars,
                   result, book_calls, push_pc, pushing, built, poll_pc,
                   last_snapshot,
                   running, snapshot_loaded, buffered_updates, last_snapshot_time,
                   update_count, update_count_last, rate_calc_time,
                   updates_per_sec, debug_depth_count>>

\* window thread: get_nowait raises queue.Empty; the latest artifact, if any,
\* is kept and displayed
PollBreak ==
    /\ poll_pc = "draining"
    /\ get_nowait(snapshot_queue).raised = "Empty"
    /\ last_snapshot' = IF latest # <<>> THEN latest ELSE last_snapshot
    /\ poll_pc' = "idle"
    /\ UNCHANGED <<bookVars, lastOp, ret, callVars, clientVars, flowVars, runVars,
                   result, book_calls, push_pc, pushing, built, latest>>

\* one snapshot interval passes
QueueTick ==
    /\ now < MaxQueueTime
    /\ now' = now + 1
    /\ UNCHANGED <<bookVars, lastOp, ret, callVars, clientVars, flowVars,
                   pc, applied, loads, auxVars>>

NextQueue ==
    \/ QueueRecv
    \/ QueueDropOldest
    \/ QueuePutNewest
    \/ PollStart
    \/ PollGet
    \/ PollBreak
    \/ QueueTick

SpecQueue == InitQueue /\ [][NextQueue]_vars

----------------------------------------------------------------------------
(* SpecFlow: the methods of a FlowEngine(bin_size=1.0, window_sec=60.0)     *)
(* called one by one. The exchange stamps a trade with the time at which    *)
(* it is processed, and time is read at the instants of FlowTimes.          *)
FlowTimes == {0, TicksPerSec + 1, WindowTicks - 1, WindowTicks + 1,
              2 * WindowTicks + TicksPerSec + 2}

TradePrices == {FloatOf("1"), FloatOf("1.5")}

TradeQtys == {FloatOf("1"), FloatOf("1.75"), FloatOf("5")}

\* Trade is a record
Trade(price, qty, is_buyer_maker, timestamp_ms) ==
    [price |-> price, qty |-> qty, is_buyer_maker |-> is_buyer_maker,
     timestamp_ms |-> timestamp_ms]

\* the bin prices asked about: the center of the bin of TradePrices and the
\* center of the bin above it
FlowBins == {FloatOf("1.5"), FloatOf("2.5")}

BinnedLevel(bin_price, bid_qty, ask_qty) ==
    [bin_price |-> bin_price, bid_qty |-> bid_qty, ask_qty |-> ask_qty]

\* lists of BinnedLevel passed to merge_with_book: as get_binned_ladder
\* returns them, and one in ascending order with a bin named twice
MergeInputs ==
    {<<>>,
     <<BinnedLevel(FloatOf("3.5"), 0, 0),
       BinnedLevel(FloatOf("2.5"), 0, FloatOf("1")),
       BinnedLevel(FloatOf("1.5"), FloatOf("2"), 0)>>,
     <<BinnedLevel(FloatOf("1.5"), FloatOf("1"), 0),
       BinnedLevel(FloatOf("2.5"), 0, FloatOf("1")),
       BinnedLevel(FloatOf("1.5"), FloatOf("1"), 0)>>}

InitFlow ==
    /\ BookIs(NewBook)
    /\ lastOp = "init"
    /\ ret = "None"
    /\ pre = NewBook
    /\ msg = NoCall
    /\ calls = 0
    /\ FeedIdle

\* process_trade(trade), MaxTrades times at most
ProcessTrade ==
    /\ calls < MaxTrades
    /\ \E price \in TradePrices, qty \in TradeQtys, is_buyer_maker \in BOOLEAN :
        SetFlows(process_trade(Flows, Trade(price, qty, is_buyer_maker, now), now))
    /\ calls' = calls + 1
    /\ lastOp' = "process_trade"
    /\ result' = NoResult
    /\ UNCHANGED <<bookVars, ret, pre, msg, modeVars, clientVars, runVars,
                   book_calls, queueVars>>

GetFlowAtBin ==
    /\ \E bin_price \in FlowBins :
        result' = [arg |-> bin_price, value |-> get_flow_at_bin(Flows, bin_price),
                   at |-> now, before |-> Flows]
    /\ lastOp' = "get_flow_at_bin"
    /\ UNCHANGED <<bookVars, ret, callVars, clientVars, flowVars, runVars,
                   book_calls, queueVars>>

MergeWithBook ==
    /\ \E binned_levels \in MergeInputs :
        \E r \in {merge_with_book(Flows, binned_levels)} :
           /\ SetFlows(r.fl)
           /\ result' = [arg |-> binned_levels, value |-> r.value, at |-> now,
                         before |-> Flows]
    /\ lastOp' = "merge_with_book"
    /\ UNCHANGED <<bookVars, ret, callVars, clientVars, runVars, book_calls,
                   queueVars>>

Clear ==
    /\ SetFlows(clear(Flows))
    /\ lastOp' = "clear"
    /\ result' = NoResult
    /\ UNCHANGED <<bookVars, ret, callVars, clientVars, runVars, book_calls,
                   queueVars>>

\* time passes up to a later instant of FlowTimes
PassTime ==
    /\ \E t \in FlowTimes : t > now /\ now' = t
    /\ UNCHANGED <<bookVars, lastOp, ret, callVars, clientVars, flowVars,
                   pc, applied, loads, auxVars>>

NextFlow ==
    \/ ProcessTrade
    \/ GetFlowAtBin
    \/ MergeWithBook
    \/ Clear
    \/ PassTime

SpecFlow == InitFlow /\ [][NextFlow]_vars

----------------------------------------------------------------------------
(* SpecVolume: process_trade, the eviction it runs and clear on a           *)
(* FlowEngine(bin_size=1.0, window_sec=60.0), with trades of any quantity   *)
(* that is not negative, the quantity 0 included.                           *)
VolumeQtys == {FloatOf("0"), FloatOf("1"), FloatOf("1.75")}

VolumeTimes == {0, TicksPerSec + 1, WindowTicks + TicksPerSec + 2,
                2 * WindowTicks + 2 * TicksPerSec + 3}

\* process_trade(trade), MaxVolumeTrades times at most; the eviction runs
\* inside it when the cleanup interval has passed
VolumeProcessTrade ==
    /\ calls < MaxVolumeTrades
    /\ \E price \in TradePrices, qty \in VolumeQtys, is_buyer_maker \in BOOLEAN :
        SetFlows(process_trade(Flows, Trade(price, qty, is_buyer_maker, now), now))
    /\ calls' = calls + 1
    /\ lastOp' = "process_trade"
    /\ result' = NoResult
    /\ UNCHANGED <<bookVars, ret, pre, msg, modeVars, clientVars, runVars,
                   book_calls, queueVars>>

VolumeClear ==
    /\ SetFlows(clear(Flows))
    /\ lastOp' = "clear"
    /\ result' = NoResult
    /\ UNCHANGED <<bookVars, ret, callVars, clientVars, runVars, book_calls,
                   queueVars>>

\* time passes up to a later instant of VolumeTimes
VolumePassTime ==
    /\ \E t \in VolumeTimes : t > now /\ now' = t
    /\ UNCHANGED <<bookVars, lastOp, ret, callVars, clientVars, flowVars,
                   pc, applied, loads, auxVars>>

NextVolume ==
    \/ VolumeProcessTrade
    \/ VolumeClear
    \/ VolumePassTime

SpecVolume == InitFlow /\ [][NextVolume]_vars

----------------------------------------------------------------------------
(* SpecLadder: get_binned_ladder called on books loaded from well-formed    *)
(* snapshots, with bin sizes 1.0 and 1.5.                                   *)
LadderEntries == {"1", "2", "3"} \X {"1"}

LadderSides == Sides(LadderEntries, MaxLadderEntries)

LadderBinSizes == {FloatOf("1"), FloatOf("1.5")}

InitLadder == InitBook

LadderLoadSnapshot ==
    /\ \E s \in LadderSides :
        \E r \in {load_snapshot(Book, Snapshot(1, s))} :
           /\ SetBook(r.ob)
           /\ ret' = r.ret
    /\ lastOp' = "load_snapshot"
    /\ result' = NoResult
    /\ UNCHANGED <<callVars, clientVars, flowVars, runVars, book_calls, queueVars>>

GetBinnedLadder ==
    /\ \E bin_size \in LadderBinSizes, levels \in 0..MaxLevels :
        \E r \in {get_binned_ladder(Book, bin_size, levels)} :
           /\ SetBook(r.ob)
           /\ result' = [arg |-> <<bin_size, levels>>, value |-> r.value,
                         at |-> now, before |-> Flows]
    /\ lastOp' = "get_binned_ladder"
    /\ ret' = "None"
    /\ UNCHANGED <<callVars, clientVars, flowVars, runVars, book_calls, queueVars>>

NextLadder ==
    \/ LadderLoadSnapshot
    \/ GetBinnedLadder

SpecLadder == InitLadder /\ [][NextLadder]_vars

----------------------------------------------------------------------------
(* SpecScenario: the end-to-end scenario on an OrderBook and a              *)
(* FlowEngine(bin_size=1.0, window_sec=60.0): load_snapshot, apply_update   *)
(* and process_trade are called once each, in this order, on the messages   *)
(* of the scenario; the queries are called at any moment in between and     *)
(* afterwards, and time passes. Floats have the 53 bits of the program.     *)
ScenarioSnapshot ==
    [lastUpdateId |-> 1000, bids |-> <<<<"99.00", "5">>>>, asks |-> <<<<"101.00", "3">>>>]

ScenarioDiff ==
    [U |-> <<1001>>, u |-> 1001, b |-> <<<<"99.00", "0">>, <<"99.50", "2">>>>, a |-> <<>>]

\* the trade of the scenario, stamped T
ScenarioTrade(T) == Trade(FloatOf("99.50"), FloatOf("1"), FALSE, T)

\* the bin prices asked about: the centers of the bins of size 1.0 that cover
\* 99.50, the mid price 100.25 and 101.00
ScenarioBins == {FloatOf("99.50"), FloatOf("99.50") + One, FloatOf("99.50") + Two}

InitScenario ==
    /\ BookIs(NewBook)
    /\ lastOp = "init"
    /\ ret = "None"
    /\ pre = NewBook
    /\ msg = NoCall
    /\ calls = 0
    /\ ClientIs(NewClient(0))
    /\ FlowsAre(NewFlows)
    /\ pc = "init"
    /\ now = 0
    /\ applied = "None"
    /\ loads = 0
    /\ result = NoResult
    /\ book_calls = <<>>
    /\ push_pc = "idle"
    /\ pushing = <<>>
    /\ built = <<>>
    /\ poll_pc = "idle"
    /\ latest = <<>>
    /\ last_snapshot = <<>>
    /\ float_bits = DoubleBits
    /\ stop_called = FALSE

ScenarioLoadSnapshot ==
    /\ calls = 0
    /\ \E r \in {load_snapshot(Book, ScenarioSnapshot)} :
           /\ SetBook(r.ob)
           /\ ret' = r.ret
    /\ calls' = 1
    /\ lastOp' = "load_snapshot"
    /\ result' = NoResult
    /\ UNCHANGED <<pre, msg, modeVars, clientVars, flowVars, runVars, book_calls,
                   queueVars>>

ScenarioApplyUpdate ==
    /\ calls = 1
    /\ \E r \in {apply_update(Book, ScenarioDiff)} :
           /\ SetBook(r.ob)
           /\ ret' = r.ret
    /\ calls' = 2
    /\ lastOp' = "apply_update"
    /\ result' = NoResult
    /\ UNCHANGED <<pre, msg, modeVars, clientVars, flowVars, runVars, book_calls,
                   queueVars>>

ScenarioProcessTrade ==
    /\ calls = 2
    /\ SetFlows(process_trade(Flows, ScenarioTrade(now), now))
    /\ calls' = 3
    /\ lastOp' = "process_trade"
    /\ result' = NoResult
    /\ UNCHANGED <<bookVars, ret, pre, msg, modeVars, clientVars, runVars,
                   book_calls, queueVars>>

\* the properties best_bid, best_ask and mid_price are read
ScenarioBestBid ==
    /\ \E r \in {best_bid(Book)} :
           /\ SetBook(r.ob)
           /\ result' = [arg |-> <<>>, value |-> r.value, at |-> now, before |-> Flows]
    /\ lastOp' = "best_bid"
    /\ UNCHANGED <<ret, callVars, clientVars, flowVars, runVars, book_calls, queueVars>>

ScenarioBestAsk ==
    /\ \E r \in {best_ask(Book)} :
           /\ SetBook(r.ob)
           /\ result' = [arg |-> <<>>, value |-> r.value, at |-> now, before |-> Flows]
    /\ lastOp' = "best_ask"
    /\ UNCHANGED <<ret, callVars, clientVars, flowVars, runVars, book_calls, queueVars>>

ScenarioMidPrice ==
    /\ \E r \in {mid_price(Book)} :
           /\ SetBook(r.ob)
           /\ result' = [arg |-> <<>>, value |-> r.value, at |-> now, before |-> Flows]
    /\ lastOp' = "mid_price"
    /\ UNCHANGED <<ret, callVars, clientVars, flowVars, runVars, book_calls, queueVars>>

ScenarioGetFlowAtBin ==
    /\ \E bin_price \in ScenarioBins :
        result' = [arg |-> bin_price, value |-> get_flow_at_bin(Flows, bin_price),
                   at |-> now, before |-> Flows]
    /\ lastOp' = "get_flow_at_bin"
    /\ UNCHANGED <<bookVars, ret, callVars, clientVars, flowVars, runVars,
                   book_calls, queueVars>>

\* flows.merge_with_book(orderbook.get_binned_ladder(bin_size, levels))
ScenarioMergeWithBook ==
    /\ \E levels \in 0..MaxLevels :
        \E binned \in {get_binned_ladder(Book, BinSize, levels)} :
            \E r \in {merge_with_book(Flows, binned.value)} :
               /\ SetBook(binned.ob)
               /\ SetFlows(r.fl)
               /\ result' = [arg |-> levels, value |-> r.value, at |-> now,
                             before |-> Flows]
    /\ lastOp' = "merge_with_book"
    /\ UNCHANGED <<ret, callVars, clientVars, runVars, book_calls, queueVars>>

NextScenario ==
    \/ ScenarioLoadSnapshot
    \/ ScenarioApplyUpdate
    \/ ScenarioProcessTrade
    \/ ScenarioBestBid
    \/ ScenarioBestAsk
    \/ ScenarioMidPrice
    \/ ScenarioGetFlowAtBin
    \/ ScenarioMergeWithBook
    \/ PassTime

SpecScenario == InitScenario /\ [][NextScenario]_vars

----------------------------------------------------------------------------
(* SpecStop: one run() of the client in the feed thread of gui.py while the *)
(* main thread calls stop(), once, at any moment: before run() has started, *)
(* while the snapshot is fetched, while run() waits for a message, and      *)
(* between the test of _running and the handling of the message in hand.    *)
StopSnapshots == {QueueSnapshot}

\* a diff that follows the snapshot and one that is stale
StopDiffs == {Update(<<2>>, 2, <<<<<<"1", "2">>>>, <<>>>>), QueueDiff}

InitStop == InitClient

\* _fetch_snapshot returns data: load_snapshot, the replay of the buffer, up to
\* `session.ws_connect(ws_url)`
StopFetchReturns ==
    /\ pc = "fetch"
    /\ \E data \in StopSnapshots :
        \E r \in {run_load_and_replay(Client, Book, data)} :
           /\ SetClient(r.c)
           /\ SetBook(r.ob)
           /\ loads' = IF r.loaded THEN loads + 1 ELSE loads
           /\ applied' = IF r.loaded THEN "None" ELSE applied
           /\ pc' = IF r.raised THEN "failed" ELSE "connect"
    /\ UNCHANGED <<lastOp, ret, callVars, flowVars, auxVars, now>>

\* a TEXT message arrives: `if not self._running: break`
StopRecv ==
    /\ pc = "recv"
    /\ debug_depth_count < MaxStopMsgs \/ Len(trades) < MaxTradeMsgs
    /\ pc' = IF running THEN "handle" ELSE "done"
    /\ UNCHANGED <<bookVars, lastOp, ret, callVars, clientVars, flowVars, auxVars,
                   now, applied, loads>>

\* self._handle_ws_message(msg.data), for a message of the depth stream
StopHandleDepth ==
    /\ pc = "handle"
    /\ debug_depth_count < MaxStopMsgs
    /\ \E data \in StopDiffs :
        \E r \in {handle_depth_message(Client, Book, Flows, data, now)} :
           /\ SetClient(r.c)
           /\ SetBook(r.ob)
           /\ applied' = r.applied
           /\ pc' = IF r.raised THEN "failed" ELSE "recv"
    /\ UNCHANGED <<lastOp, ret, callVars, flowVars, auxVars, now, loads>>

\* self._handle_ws_message(msg.data), for a message of the trade stream
StopHandleTrade ==
    /\ pc = "handle"
    /\ Len(trades) < MaxTradeMsgs
    /\ \E data \in TradeMsgs(now) :
        \E r \in {handle_trade_message(Client, Book, Flows, data, now)} :
           /\ SetClient(r.c)
           /\ SetBook(r.ob)
           /\ SetFlows(r.fl)
           /\ pc' = IF r.raised THEN "failed" ELSE "recv"
    /\ UNCHANGED <<lastOp, ret, callVars, auxVars, now, applied, loads>>

\* main thread: client.stop()
CallStop ==
    /\ ~stop_called
    /\ stop_called' = TRUE
    /\ running' = FALSE
    /\ UNCHANGED <<bookVars, lastOp, ret, pre, msg, calls, float_bits, flowVars,
                   auxVars, runVars,
                   snapshot_loaded, buffered_updates, last_snapshot_time,
                   update_count, update_count_last, rate_calc_time,
                   updates_per_sec, snapshot_queue, debug_depth_count>>

NextStop ==
    \/ Run
    \/ FetchSnapshotFails
    \/ StopFetchReturns
    \/ WsConnect
    \/ WsConnectFails
    \/ StopRecv
    \/ StopHandleDepth
    \/ StopHandleTrade
    \/ WsEnds
    \/ CallStop
    \/ Tick

SpecStop == InitStop /\ [][NextStop]_vars

\* _handle_ws_message is synchronous code: the call made for the message in
\* hand returns or raises (the step StopHandleDepth or StopHandleTrade takes)
HandleReturns == pc = "handle" /\ pc' \in {"recv", "failed"}

\* SpecStop with what the event loop guarantees: a coroutine that can run is
\* run, and an HTTP request or a handshake in flight comes back (with data or
\* with an error), and time passes.  Nothing makes the exchange send a message
\* or close the stream, and nothing makes the main thread call stop().
SpecStopFair ==
    /\ SpecStop
    /\ WF_vars(Run)
    /\ WF_vars(FetchSnapshotFails \/ StopFetchReturns)
    /\ WF_vars(WsConnect \/ WsConnectFails)
    /\ WF_pc(HandleReturns)
    /\ WF_vars(Tick)

----------------------------------------------------------------------------
(* Claims about single calls (SpecCall) *)
WellFormed(levels) == \A i \in 1..Len(levels) : Parses(levels[i])

PricesOf(levels) == {FloatOf(levels[i][1]) : i \in 1..Len(levels)}

\* the last entry of the list that names price p, 0 when none does
LastNaming(levels, p) ==
    LET I == {i \in 1..Len(levels) : FloatOf(levels[i][1]) = p}
    IN IF I = {} THEN 0 ELSE SetMax(I)

\* the last entry of the list that names price p with a quantity > 0
LastPositive(levels, p) ==
    LET I == {i \in 1..Len(levels) :
                FloatOf(levels[i][1]) = p /\ FloatOf(levels[i][2]) > 0}
    IN IF I = {} THEN 0 ELSE SetMax(I)

IsGap == FirstId(msg) > pre.last_update_id + 1

IsStale == ~IsGap /\ msg.u <= pre.last_update_id

SameLevels(ob) ==
    /\ bids = ob.bids
    /\ asks = ob.asks
    /\ last_update_id = ob.last_update_id

\* C1: a diff with firstId > last_update_id + 1 makes apply_update return
\* false and leaves bids, asks and last_update_id as they were.
C1_GapRejected ==
    (calls = 1 /\ lastOp = "apply_update" /\ IsGap)
        => (ret = "False" /\ SameLevels(pre))

C1_Witness ==
    /\ calls = 1 /\ lastOp = "apply_update" /\ IsGap
    /\ msg.b # <<>> /\ pre.bids # EmptyDict /\ ret = "False"

\* C2: a diff that is not a gap and has lastId <= last_update_id makes
\* apply_update return true and leaves bids, asks and last_update_id unchanged.
C2_StaleAbsorbed ==
    (calls = 1 /\ lastOp = "apply_update" /\ IsStale)
        => (ret = "True" /\ SameLevels(pre))

C2_Witness ==
    /\ calls = 1 /\ lastOp = "apply_update" /\ IsStale
    /\ msg.b # <<>> /\ pre.bids # EmptyDict /\ ret = "True"

\* C3: applying a diff twice in a row leaves bids, asks and last_update_id as
\* applying it once does.
C3_Idempotent ==
    (calls = 2 /\ lastOp = "apply_update") => SameLevels(apply_update(pre, msg).ob)

C3_Witness ==
    /\ calls = 2 /\ lastOp = "apply_update" /\ ret = "True"
    /\ bids # pre.bids /\ asks # pre.asks /\ last_update_id = msg.u

\* what C4 says of one side of the book: a price the diff does not name keeps
\* its quantity; a price it names is absent when the last entry naming it has
\* quantity 0 and maps to that quantity when it is > 0; no other key appears.
SideAsClaimed(before, changes, after) ==
    /\ DOMAIN after \subseteq (DOMAIN before) \cup PricesOf(changes)
    /\ \A p \in (DOMAIN before) \cup PricesOf(changes) :
        LET i == LastNaming(changes, p)
        IN IF i = 0
           THEN p \in DOMAIN after /\ after[p] = before[p]
           ELSE /\ FloatOf(changes[i][2]) = 0 => p \notin DOMAIN after
                /\ FloatOf(changes[i][2]) > 0
                      => (p \in DOMAIN after /\ after[p] = FloatOf(changes[i][2]))

\* C4: a diff with firstId <= last_update_id + 1 and lastId > last_update_id
\* makes apply_update return true and set last_update_id to lastId; its
\* entries, in list order, remove the price when qty = 0 and upsert it when
\* qty > 0; every price it does not name keeps its quantity.
C4_DiffApplied ==
    (/\ calls = 1 /\ lastOp = "apply_update" /\ ~IsGap /\ ~IsStale
     /\ WellFormed(msg.b) /\ WellFormed(msg.a))
        => /\ ret = "True"
           /\ last_update_id = msg.u
           /\ SideAsClaimed(pre.bids, msg.b, bids)
           /\ SideAsClaimed(pre.asks, msg.a, asks)

\* a price removed, and a price named twice ending with the second quantity
C4_Witness ==
    /\ calls = 1 /\ lastOp = "apply_update" /\ ~IsGap /\ ~IsStale
    /\ ret = "True"
    /\ Len(msg.b) = 2 /\ msg.b[1][1] = msg.b[2][1] /\ msg.b[1][2] = "0" /\ msg.b[2][2] = "2"
    /\ \E p \in DOMAIN pre.bids : p \notin PricesOf(msg.b)

\* what C7 says of one side of the book: its keys are the prices the snapshot
\* lists with a quantity > 0, each with that quantity (the last listed one when
\* the snapshot lists a price twice).
SideLoaded(levels, after) ==
    /\ DOMAIN after = {p \in PricesOf(levels) : LastPositive(levels, p) # 0}
    /\ \A p \in DOMAIN after : after[p] = FloatOf(levels[LastPositive(levels, p)][2])

\* C7: after load_snapshot returns, bids and asks hold the snapshot's
\* (price, qty) pairs with qty > 0 and nothing else, and last_update_id is the
\* snapshot's id.
C7_SnapshotReplacesState ==
    (calls = 1 /\ lastOp = "load_snapshot" /\ WellFormed(msg.b) /\ WellFormed(msg.a))
        => /\ ret = "None"
           /\ last_update_id = msg.u
           /\ SideLoaded(msg.b, bids)
           /\ SideLoaded(msg.a, asks)

\* a level of the book before is gone, an entry of quantity 0 made no level
C7_Witness ==
    /\ calls = 1 /\ lastOp = "load_snapshot" /\ ret = "None"
    /\ \E p \in DOMAIN pre.bids : p \notin DOMAIN bids
    /\ \E i \in 1..Len(msg.b) : msg.b[i][2] = "0" /\ FloatOf(msg.b[i][1]) \notin DOMAIN bids
    /\ bids # EmptyDict
    /\ last_update_id # pre.last_update_id

----------------------------------------------------------------------------
(* Claims about one run of the client (SpecClient) *)

\* C6: once a snapshot has been loaded, no step lowers last_update_id, whatever
\* diffs (gap, stale or applied, in any order) the feed delivers afterwards.
C6_LastUpdateIdNeverDecreases ==
    [][snapshot_loaded => last_update_id' >= last_update_id]_vars

\* three diffs after the snapshot: one rejected as a gap, two absorbed or applied
C6_Witness ==
    /\ snapshot_loaded /\ debug_depth_count = 3 /\ update_count = 2
    /\ applied = "True" /\ last_update_id > 0

\* this step passes a diff to apply_update in Live
AppliesDiff == snapshot_loaded /\ debug_depth_count' = debug_depth_count + 1

\* C9: once apply_update has returned false for a diff received in Live, no
\* further diff is applied until load_snapshot has been called again.
C9_GapRestartsCycle == [][~(applied = "False" /\ AppliesDiff)]_vars

\* C10: _snapshot_loaded goes from false to true at most once, in the step in
\* which load_snapshot returns on the fetched snapshot; it never goes back to
\* false, and it is false as long as no load_snapshot has returned (the fetch
\* or the load failed).
C10_LiveOnceAfterLoad ==
    [][/\ snapshot_loaded => snapshot_loaded'
       /\ (~snapshot_loaded /\ snapshot_loaded') => (pc = "fetch" /\ loads' = loads + 1)
       /\ snapshot_loaded' <=> loads' >= 1
       /\ (pc = "fetch" /\ pc' = "failed") => ~snapshot_loaded']_vars

\* Live, and still Live after the diffs that followed, a gap among them
C10_Witness ==
    /\ snapshot_loaded /\ loads = 1 /\ pc = "recv"
    /\ debug_depth_count >= 2 /\ applied = "False"

\* C17: a malformed message of the feed, depth diff or trade, fails that
\* message only: run() goes on receiving and does not end by raising.
C17_MalformedFailsOnlyMessage == [][pc = "recv" => pc' # "failed"]_vars

\* the fraction <<n, d>> is the quotient x / y times 10000
IsBpsOf(f, x, y) == f[2] # 0 /\ f[1] * y = x * 10000 * f[2]

\* C23: every published artifact has spread_bps = (best_ask - best_bid) /
\* mid_price * 10000 for the best_bid, best_ask and mid_price it carries, and
\* spread_bps = 0 when its mid_price is 0.
C23_SpreadFromOwnFields ==
    \A i \in 1..Len(snapshot_queue) :
        IF snapshot_queue[i].mid_price = 0
        THEN snapshot_queue[i].spread_bps[1] = 0
        ELSE IsBpsOf(snapshot_queue[i].spread_bps,
                     snapshot_queue[i].best_ask - snapshot_queue[i].best_bid,
                     snapshot_queue[i].mid_price)

\* two artifacts published: one of an empty book, with mid_price 0, and one of
\* a book with both sides, best_ask above best_bid
C23_Witness ==
    /\ \E i \in 1..Len(snapshot_queue) :
        snapshot_queue[i].mid_price = 0 /\ snapshot_queue[i].spread_bps[1] = 0
    /\ \E i \in 1..Len(snapshot_queue) :
        /\ snapshot_queue[i].best_bid > 0
        /\ snapshot_queue[i].best_ask > snapshot_queue[i].best_bid
        /\ snapshot_queue[i].spread_bps[1] > 0

----------------------------------------------------------------------------
(* Claims about the methods of the client called one by one (SpecMethods) *)

\* this step is a call of _process_depth_update: no other method counts
CallsProcessDepthUpdate == debug_depth_count' = debug_depth_count + 1

\* C11: while _snapshot_loaded is false, _process_depth_update appends the diff
\* to the end of the buffer and leaves bids, asks, last_update_id and the
\* counter of applied diffs as they are.
C11_BufferingAppends ==
    [][(~snapshot_loaded /\ CallsProcessDepthUpdate) =>
            /\ buffered_updates' = Append(buffered_updates, msg')
            /\ UNCHANGED <<bids, asks, last_update_id, update_count>>
            /\ ~snapshot_loaded']_vars

\* two different diffs buffered, the book as constructed
C11_Witness ==
    /\ ~snapshot_loaded /\ Len(buffered_updates) = 2
    /\ buffered_updates[1] # buffered_updates[2]
    /\ lastOp = "_process_depth_update" /\ msg = buffered_updates[2]
    /\ bids = EmptyDict /\ asks = EmptyDict /\ last_update_id = 0

\* the calls of apply_update that replaying the diffs in the order of their
\* arrival makes
InArrivalOrder(updates) ==
    [i \in 1..Len(updates) |-> [op |-> "apply_update", data |-> updates[i]]]

----------------------------------------------------------------------------
(* Claims about the queue between the feed and the window (SpecQueue) *)

InQueue(x) == \E i \in 1..Len(snapshot_queue) : snapshot_queue[i] = x

\* C13: once _maybe_push_snapshot has returned, the artifact it built last is
\* in the queue or has been taken by the window; it is never discarded.
C13_NewestNeverDiscarded ==
    (push_pc = "idle" /\ built # <<>>) =>
        \/ InQueue(built[1])
        \/ latest = built
        \/ last_snapshot = built

\* C14: the queue never holds more than QueueMaxSize artifacts, and a publish
\* neither blocks (its next step can always be taken) nor raises into run().
C14_BoundedNonBlocking ==
    /\ Len(snapshot_queue) <= QueueMaxSize
    /\ pc # "failed"
    /\ push_pc = "full" => ENABLED QueueDropOldest
    /\ push_pc = "got" => ENABLED QueuePutNewest

\* the sixth artifact published into a full queue that nobody polls: the
\* oldest one has left, the newest is last
C14_Witness ==
    /\ push_pc = "idle" /\ Len(snapshot_queue) = QueueMaxSize
    /\ built # <<>> /\ snapshot_queue[QueueMaxSize] = built[1]
    /\ snapshot_queue[1].timestamp_ms = 2
    /\ last_snapshot = <<>> /\ latest = <<>>

----------------------------------------------------------------------------
(* Claims about the flow engine (SpecFlow) *)

\* the history entries of a side and bin, as their positions in trades
EntriesOf(is_bid, bin_price) ==
    {i \in 1..Len(trades) : trades[i].is_bid = is_bid /\ trades[i].bin_price = bin_price}

\* the float sum of the quantities at the positions I, oldest first
RECURSIVE SumOfEntries(_)
SumOfEntries(I) ==
    IF I = {} THEN 0
    ELSE FAdd(SumOfEntries(I \ {SetMax(I)}), trades[SetMax(I)].qty)

TotalMatches(volume, is_bid, bin_price) ==
    IF EntriesOf(is_bid, bin_price) = {} THEN bin_price \notin DOMAIN volume
    ELSE /\ bin_price \in DOMAIN volume
         /\ volume[bin_price] = SumOfEntries(EntriesOf(is_bid, bin_price))

\* C15: for each side and bin the running total is the sum of the quantities
\* of the history entries of that side and bin, and a bin without entries has
\* no key.
C15_TotalsMatchHistory ==
    \A bin_price \in FlowBins \cup DOMAIN bid_volume \cup DOMAIN ask_volume :
        /\ TotalMatches(bid_volume, TRUE, bin_price)
        /\ TotalMatches(ask_volume, FALSE, bin_price)

\* the entries of a side and bin that are at most window_sec old at time t
InWindow(fl, is_bid, bin_price, t) ==
    {i \in 1..Len(fl.trades) :
        /\ fl.trades[i].is_bid = is_bid
        /\ fl.trades[i].bin_price = bin_price
        /\ fl.trades[i].timestamp_ms >= t - WindowTicks}

\* C16: a trade contributes its quantity to what get_flow_at_bin returns as
\* long as it is less than window_sec old at the time of the query, and
\* nothing once it is older: a bin all of whose trades are older reads 0, a
\* bin whose only trade is younger reads the quantity of that trade.
C16_WindowAtQuery ==
    lastOp = "get_flow_at_bin" =>
        /\ InWindow(result.before, TRUE, result.arg, result.at) = {}
                => result.value[1] = 0
        /\ InWindow(result.before, FALSE, result.arg, result.at) = {}
                => result.value[2] = 0
        /\ \A i \in 1..Len(result.before.trades) :
            (/\ Len(result.before.trades) = 1
             /\ result.before.trades[i].timestamp_ms > result.at - WindowTicks
             /\ result.before.trades[i].bin_price = result.arg)
                => result.value[IF result.before.trades[i].is_bid THEN 1 ELSE 2]
                       = result.before.trades[i].qty

\* C18: merge_with_book returns one FlowLevel per level passed, in the order
\* passed, with the price and the resting quantities of the level, the traded
\* totals stored for exactly that bin price (0 when there is none) and their
\* difference; the engine is as before the call.
C18_MergeIsReadOnlyJoin ==
    lastOp = "merge_with_book" =>
        /\ FlowsAre(result.before)
        /\ Len(result.value) = Len(result.arg)
        /\ \A i \in 1..Len(result.arg) :
            /\ result.value[i].price = result.arg[i].bin_price
            /\ result.value[i].bid_resting_qty = result.arg[i].bid_qty
            /\ result.value[i].ask_resting_qty = result.arg[i].ask_qty
            /\ result.value[i].bid_traded_qty =
                    IF result.arg[i].bin_price \in DOMAIN bid_volume
                    THEN bid_volume[result.arg[i].bin_price] ELSE 0
            /\ result.value[i].ask_traded_qty =
                    IF result.arg[i].bin_price \in DOMAIN ask_volume
                    THEN ask_volume[result.arg[i].bin_price] ELSE 0
            /\ result.value[i].delta_qty =
                    FSub(result.value[i].bid_traded_qty, result.value[i].ask_traded_qty)

\* three levels merged while one of their bins holds traded volume on both
\* sides and another none
C18_Witness ==
    /\ lastOp = "merge_with_book" /\ Len(result.arg) = 3
    /\ bid_volume # EmptyDict /\ ask_volume # EmptyDict
    /\ \E i \in 1..3 : result.value[i].bid_traded_qty > 0
                        /\ result.value[i].delta_qty < 0
    /\ \E i \in 1..3 : result.value[i].bid_traded_qty = 0
                        /\ result.value[i].ask_traded_qty = 0

\* the trades process_trade can be called with at this instant
FlowTrades ==
    {Trade(price, qty, is_buyer_maker, now) :
        price \in TradePrices, qty \in TradeQtys, is_buyer_maker \in BOOLEAN}

\* this step is the call process_trade(trade)
CallsProcessTrade(trade) ==
    calls' = calls + 1 /\ Flows' = process_trade(Flows, trade, now)

\* the entry of the history that C22 says the trade leaves
HistoryEntry(trade) ==
    [timestamp_ms |-> trade.timestamp_ms, bin_price |-> price_to_bin(trade.price),
     qty |-> trade.qty, is_bid |-> ~trade.is_buyer_maker]

\* the step adds qty to the total of bin_price in the map and leaves every
\* other bin of the map as it is
AddsToBin(volume, volume_after, bin_price, qty) ==
    /\ bin_price \in DOMAIN volume_after
    /\ volume_after[bin_price] =
            FAdd(IF bin_price \in DOMAIN volume THEN volume[bin_price] ELSE 0, qty)
    /\ (DOMAIN volume_after) \ {bin_price} = (DOMAIN volume) \ {bin_price}
    /\ \A b \in (DOMAIN volume) \ {bin_price} : volume_after[b] = volume[b]

\* what C22 says of the step that processes the trade
RecordsTrade(trade) ==
    /\ ~trade.is_buyer_maker =>
            /\ AddsToBin(bid_volume, bid_volume', price_to_bin(trade.price), trade.qty)
            /\ ask_volume' = ask_volume
    /\ trade.is_buyer_maker =>
            /\ AddsToBin(ask_volume, ask_volume', price_to_bin(trade.price), trade.qty)
            /\ bid_volume' = bid_volume
    /\ trades' = Append(trades, HistoryEntry(trade))

\* C22 as claimed: process_trade adds trade.qty to the bid-traded total of the
\* trade's bin when is_buyer_maker is false and to the ask-traded total when
\* it is true, leaves the other side's map and every other bin unchanged, and
\* appends exactly one entry (timestamp, bin, qty, side) to the end of the
\* history.
C22_ProcessTradeRecords ==
    [][\A trade \in FlowTrades : CallsProcessTrade(trade) => RecordsTrade(trade)]_vars

\* the eviction of process_trade, when perf_counter() is t, removes no entry:
\* it is not due, or the oldest entry is not older than window_sec
EvictsNothing(fl, trade, t) ==
    \/ ~(t - fl.last_cleanup_time > CleanupInterval)
    \/ fl.trades = <<>>
    \/ Head(fl.trades).timestamp_ms >= trade.timestamp_ms - WindowTicks

\* C22 as amended: process_trade leaves exactly the entry (timestamp, bin, qty,
\* side) of the trade as the newest of the history; in a call whose periodic
\* eviction removes no entry it has added trade.qty to the total of the
\* trade's bin on the side is_buyer_maker names, left the other side's map and
\* every other bin unchanged and left the older entries of the history as
\* they were.
C22_RecordsUnlessEvicting ==
    [][\A trade \in FlowTrades :
        CallsProcessTrade(trade) =>
            /\ trades' # <<>>
            /\ trades'[Len(trades')] = HistoryEntry(trade)
            /\ EvictsNothing(Flows, trade, now) => RecordsTrade(trade)]_vars

\* a sell recorded after two buys, after a call whose eviction was due and
\* removed nothing: both maps hold a total
C22_Witness ==
    /\ lastOp = "process_trade" /\ Len(trades) = 3
    /\ ~trades[3].is_bid /\ trades[1].is_bid /\ trades[2].is_bid
    /\ trades[2].timestamp_ms > trades[1].timestamp_ms
    /\ last_cleanup_time = trades[2].timestamp_ms
    /\ bid_volume # EmptyDict /\ ask_volume # EmptyDict

----------------------------------------------------------------------------
(* Claims about the book under any sequence of calls (SpecBook) *)

\* C5: no key of bids or asks maps to a quantity <= 0.
C5_NoNonPositiveQty ==
    /\ \A p \in DOMAIN bids : bids[p] > 0
    /\ \A p \in DOMAIN asks : asks[p] > 0

\* C8: the queries reflect the book: best_bid is the highest key of bids (0.0
\* when there is none), best_ask the lowest key of asks, get_ladder returns and
\* lists prices of the book only, and when the dirty flag is false the cached
\* price sequences are the sorted keys of bids and asks.
C8_QueriesReflectBook ==
    /\ best_bid(Book).value = IF bids = EmptyDict THEN 0 ELSE SetMax(DOMAIN bids)
    /\ best_ask(Book).value = IF asks = EmptyDict THEN 0 ELSE SetMin(DOMAIN asks)
    /\ \A levels \in 0..MaxLevels :
        LET r == get_ladder(Book, levels)
        IN /\ ~r.raised
           /\ \A i \in 1..Len(r.value) : r.value[i][1] \in (DOMAIN bids) \cup (DOMAIN asks)
    /\ ~dirty => /\ bid_prices_sorted = SortedDesc(DOMAIN bids)
                 /\ ask_prices_sorted = SortedAsc(DOMAIN asks)

\* C19: mid_price is the average of the best bid and the best ask when both
\* sides hold a price, the best price of the only side that holds one, and
\* 0.0 when the book is empty.
C19_MidPrice ==
    LET mid == mid_price(Book).value
    IN /\ (bids # EmptyDict /\ asks # EmptyDict) =>
            2 * mid = SetMax(DOMAIN bids) + SetMin(DOMAIN asks)
       /\ (bids # EmptyDict /\ asks = EmptyDict) => mid = SetMax(DOMAIN bids)
       /\ (bids = EmptyDict /\ asks # EmptyDict) => mid = SetMin(DOMAIN asks)
       /\ (bids = EmptyDict /\ asks = EmptyDict) => mid = 0

----------------------------------------------------------------------------
(* Claims about the binned ladder (SpecLadder) *)

\* the sum of the quantities of the prices P of a side
RECURSIVE TotalQty(_, _)
TotalQty(d, P) ==
    IF P = {} THEN 0 ELSE d[SetMax(P)] + TotalQty(d, P \ {SetMax(P)})

\* the prices of a side that lie in the bin of index k: floor(price / bin_size)
PricesInBin(d, bin_size, k) == {p \in DOMAIN d : p \div bin_size = k}

\* C20: on a book that is not empty get_binned_ladder returns 2 * levels + 1
\* bins in strictly descending order, the middle one centred at
\* floor(mid / bin_size) * bin_size + bin_size / 2 and the others whole
\* multiples of bin_size away from it (in float arithmetic), and each bin
\* holds the sum of the quantities of all the prices of the book that fall
\* into it, that is whose floor(price / bin_size) is that of the bin.
C20_BinnedLadder ==
    (lastOp = "get_binned_ladder" /\ (bids # EmptyDict \/ asks # EmptyDict)) =>
        LET bin_size == result.arg[1]
            levels == result.arg[2]
            mid == mid_price(Book).value
            k == mid \div bin_size
        IN /\ Len(result.value) = 2 * levels + 1
           /\ \A i \in 1..(2 * levels) :
                result.value[i].bin_price > result.value[i + 1].bin_price
           /\ \A i \in 1..(2 * levels + 1) :
                /\ result.value[i].bin_price =
                        FAdd(BinCenter(mid, bin_size),
                             FMul(IntToFloat(levels + 1 - i), bin_size))
                /\ result.value[i].bid_qty =
                        TotalQty(bids, PricesInBin(bids, bin_size, k + levels + 1 - i))
                /\ result.value[i].ask_qty =
                        TotalQty(asks, PricesInBin(asks, bin_size, k + levels + 1 - i))

\* the bins of index k - levels .. k + levels cover every price of the side
Covered(d, bin_size, k, levels) ==
    \A p \in DOMAIN d : (p \div bin_size) \in (k - levels)..(k + levels)

\* the sum of the bid quantities (side 1) or ask quantities (side 2) of the
\* first n bins of a binned ladder
RECURSIVE SumOfBins(_, _, _)
SumOfBins(ladder, side, n) ==
    IF n = 0 THEN 0
    ELSE SumOfBins(ladder, side, n - 1)
            + (IF side = 1 THEN ladder[n].bid_qty ELSE ladder[n].ask_qty)

\* C21: when the bins get_binned_ladder allocates cover every bid price of the
\* book, the bid quantities of the returned bins add up to the bid quantities
\* of the book; likewise for the asks.
C21_BinningConservation ==
    lastOp = "get_binned_ladder" =>
        LET bin_size == result.arg[1]
            levels == result.arg[2]
            k == mid_price(Book).value \div bin_size
        IN /\ Covered(bids, bin_size, k, levels) =>
                SumOfBins(result.value, 1, Len(result.value))
                    = TotalQty(bids, DOMAIN bids)
           /\ Covered(asks, bin_size, k, levels) =>
                SumOfBins(result.value, 2, Len(result.value))
                    = TotalQty(asks, DOMAIN asks)

----------------------------------------------------------------------------
(* Claims about the end-to-end scenario (SpecScenario) *)

\* the levels of a merged ladder whose bin covers the price: the bin of center
\* c covers [c - bin_size / 2, c + bin_size / 2)
LevelsCovering(flow_levels, price) ==
    {i \in 1..Len(flow_levels) :
        /\ 2 * flow_levels[i].price - BinSize <= 2 * price
        /\ 2 * price < 2 * flow_levels[i].price + BinSize}

\* C24: after load_snapshot {id 1000, bids [99.00:5], asks [101.00:3]} and
\* apply_update {firstId 1001, lastId 1001, bidChanges [99.00:0, 99.50:2]},
\* best_bid is 99.50, best_ask 101.00 and mid_price 100.25, whenever they are
\* read; after the trade {99.50, 1, is_buyer_maker false} the bid-traded volume
\* of the bin covering 99.50 is 1 and a merged ladder that reaches that bin
\* has exactly one level for it, with delta_qty = +1.
C24_EndToEndScenario ==
    /\ calls >= 2 =>
        /\ ret = "True"
        /\ best_bid(Book).value = FloatOf("99.50")
        /\ best_ask(Book).value = FloatOf("101.00")
        /\ mid_price(Book).value = FloatOf("100.25")
        /\ lastOp = "best_bid" => result.value = FloatOf("99.50")
        /\ lastOp = "best_ask" => result.value = FloatOf("101.00")
        /\ lastOp = "mid_price" => result.value = FloatOf("100.25")
    /\ calls = 3 =>
        /\ \A bin_price \in ScenarioBins :
            (2 * bin_price - BinSize <= 2 * FloatOf("99.50")
                /\ 2 * FloatOf("99.50") < 2 * bin_price + BinSize)
                => get_flow_at_bin(Flows, bin_price)[1] = FloatOf("1")
        /\ (lastOp = "get_flow_at_bin" /\ result.arg = FloatOf("99.50"))
                => result.value = <<FloatOf("1"), 0, FloatOf("1")>>
        /\ (lastOp = "merge_with_book" /\ result.arg >= 1) =>
            /\ Cardinality(LevelsCovering(result.value, FloatOf("99.50"))) = 1
            /\ \A i \in LevelsCovering(result.value, FloatOf("99.50")) :
                /\ result.value[i].bid_traded_qty = FloatOf("1")
                /\ result.value[i].delta_qty = FloatOf("1")
                /\ result.value[i].bid_resting_qty = FloatOf("2")

\* the whole scenario has run, the three properties were read on the way and
\* the merged ladder of 2 levels around the mid price has just been built
C24_Witness ==
    /\ calls = 3 /\ lastOp = "merge_with_book" /\ result.arg = 2
    /\ Len(result.value) = 5
    /\ bids = (FloatOf("99.50") :> FloatOf("2"))
    /\ asks = (FloatOf("101.00") :> FloatOf("3"))
    /\ last_update_id = 1001
    /\ Len(trades) = 1

----------------------------------------------------------------------------
(* Claims about stop() (SpecStop) *)

\* C25: once stop() has been called, no further message of the feed is
\* applied (to the book or to the flows) and no further artifact is
\* published, at whatever moment stop() was called, before run() has started
\* included.
C25_NoMessageAfterStop ==
    [][stop_called =>
          /\ debug_depth_count' = debug_depth_count
          /\ UNCHANGED <<trades, bid_volume, ask_volume>>
          /\ snapshot_queue' = snapshot_queue]_vars

\* C26: once stop() has been called, run() eventually returns (or raises),
\* also when no further message arrives and while the snapshot request is in
\* flight.
C26_StopTerminatesRun == stop_called ~> (pc \in {"done", "failed"})

----------------------------------------------------------------------------
(* Claims about the artifacts run() publishes (SpecClient) *)

\* the step publishes an artifact
Publishes == snapshot_queue' # snapshot_queue

\* the artifact the step has published
Published == snapshot_queue'[Len(snapshot_queue')]

\* C27: a published artifact's best_bid, best_ask, mid_price and resting
\* quantities are those of one state of the book, and its traded quantities
\* those of one state of the flow engine: the states in which the handler of
\* the message left them when it built the artifact, with nothing applied in
\* between.
C27_NoTornReads ==
    [][Publishes =>
          /\ Published.best_bid = IF bids' = EmptyDict THEN 0 ELSE SetMax(DOMAIN bids')
          /\ Published.best_ask = IF asks' = EmptyDict THEN 0 ELSE SetMin(DOMAIN asks')
          /\ Published.mid_price = mid_price(Book').value
          /\ Published.levels =
                FlowLevels(Flows', get_binned_ladder(Book', BinSize, Levels).value)]_vars

\* two artifacts of two different books, the newer one of the book as it is
\* now and reporting a traded quantity
C27_Witness ==
    /\ Len(snapshot_queue) >= 2
    /\ snapshot_queue[1].best_bid # snapshot_queue[Len(snapshot_queue)].best_bid
    /\ bids # EmptyDict
    /\ snapshot_queue[Len(snapshot_queue)].best_bid = SetMax(DOMAIN bids)
    /\ \E i \in 1..Len(snapshot_queue[Len(snapshot_queue)].levels) :
         /\ snapshot_queue[Len(snapshot_queue)].levels[i].bid_traded_qty > 0
         /\ snapshot_queue[Len(snapshot_queue)].levels[i].bid_resting_qty > 0

\* C28: an artifact is published only when at least one snapshot interval
\* has passed since the previous publish (the clock counts intervals), so two
\* artifacts published one after the other are at least one interval apart,
\* however many messages were handled in between.
C28_RateLimited ==
    [][Publishes =>
          /\ now - last_snapshot_time >= 1
          /\ last_snapshot_time' = now
          /\ Published.timestamp_ms = now
          /\ \A i \in 1..Len(snapshot_queue) :
                Published.timestamp_ms - snapshot_queue[i].timestamp_ms >= 1]_vars

\* two artifacts, one interval apart, out of four messages handled
C28_Witness ==
    /\ Len(snapshot_queue) = 2
    /\ snapshot_queue[2].timestamp_ms - snapshot_queue[1].timestamp_ms = 1
    /\ debug_depth_count + Len(trades) >= 4

----------------------------------------------------------------------------
(* Claims about the idle feed (SpecStopFair) *)

\* C29: the artifact is built by a periodic task of its own: whenever run() is
\* Live and waiting for a message, stop() has not been called, and a snapshot
\* interval has passed since the last publish, an artifact is eventually
\* published (which sets _last_snapshot_time), also when no message arrives.
C29_PublishedWhenIdle ==
    (pc = "recv" /\ snapshot_loaded /\ ~stop_called /\ now - last_snapshot_time >= 1)
        ~> (now - last_snapshot_time < 1 \/ pc # "recv" \/ stop_called)

----------------------------------------------------------------------------
(* Claims about the counter of applied diffs (SpecCounter) *)

\* C30: in Live a depth diff is passed to apply_update in the step in which
\* it arrives, on the book as the diffs before it left it, and the counter of
\* applied diffs goes up by one exactly in the steps in which a diff received
\* in Live made apply_update return true: it stays as it is for a diff
\* rejected as a gap, for a trade, for a diff that is buffered and for the
\* replay of the buffer.
C30_CountsAppliedLiveDiffs ==
    [][/\ (snapshot_loaded /\ CallsProcessDepthUpdate) =>
            /\ applied' = apply_update(Book, msg').ret
            /\ bids' = apply_update(Book, msg').ob.bids
            /\ asks' = apply_update(Book, msg').ob.asks
            /\ last_update_id' = apply_update(Book, msg').ob.last_update_id
       /\ IF snapshot_loaded /\ CallsProcessDepthUpdate /\ applied' = "True"
          THEN update_count' = update_count + 1
          ELSE update_count' = update_count]_vars

\* the diff of id 2 buffered and replayed, then in Live the diff of id 3
\* applied and a gap rejected, and a trade: one diff counted out of three
C30_Witness ==
    /\ snapshot_loaded /\ loads = 1 /\ last_update_id = 3
    /\ debug_depth_count = 3 /\ update_count = 1
    /\ applied = "False" /\ Len(trades) = 1

----------------------------------------------------------------------------
(* Claims about trades and the sequencing of the book (SpecCounter) *)

\* the Trade that _process_trade builds from the message
TradeOf(data) ==
    [price |-> FloatOf(data.p), qty |-> FloatOf(data.q),
     is_buyer_maker |-> data.m, timestamp_ms |-> data.T]

\* this step is a call of _process_trade that returned (run() does not move)
ProcessesTrade == lastOp' = "_process_trade" /\ ret' = "None" /\ pc' = pc

\* C31: a trade message is passed to the flow engine in the step in which it
\* arrives, while the client buffers as well as in Live, and the call changes
\* neither bids, asks, last_update_id nor the buffer of pending diffs (nor
\* whether the client buffers).
C31_TradesIndependentOfBook ==
    [][ProcessesTrade =>
          /\ \E data \in TradeMsgs(now) :
                /\ data.q \in NumericStrs
                /\ Flows' = process_trade(Flows, TradeOf(data), now)
          /\ Len(trades') = Len(trades) + 1
          /\ UNCHANGED <<bids, asks, last_update_id, buffered_updates,
                         snapshot_loaded>>]_vars

\* a trade recorded while two diffs wait in the buffer and the book is as
\* constructed
C31_Witness ==
    /\ ~snapshot_loaded /\ Len(buffered_updates) = 2
    /\ lastOp = "_process_trade" /\ ret = "None"
    /\ Len(trades) = 1 /\ bid_volume # EmptyDict
    /\ last_update_id = 0 /\ bids = EmptyDict

----------------------------------------------------------------------------
(* Claims about the artifacts in the queue (SpecClient) *)

----------------------------------------------------------------------------
(* Claims about malformed input to the book (SpecCall) *)

\* C33: when load_snapshot or apply_update raises because a price or a
\* quantity of the message is not numeric, bids, asks and last_update_id are
\* as they were before the call.
C33_AtomicOnMalformed ==
    (calls = 1 /\ ret = "raised") => SameLevels(pre)

----------------------------------------------------------------------------
(* Claims about the order of run() (SpecClient) *)

\* C34: run() opens the stream after it has loaded the snapshot and replayed
\* the buffer: every depth diff of the stream is handled while run() receives
\* with _snapshot_loaded true, no diff is ever appended to the buffer, and the
\* buffer is empty when run() replays it.
C34_StreamAfterLoad ==
    [][/\ CallsProcessDepthUpdate => (pc = "recv" /\ snapshot_loaded)
       /\ buffered_updates = <<>> /\ buffered_updates' = <<>>
       /\ (pc' = "recv" /\ pc # "recv") => (pc = "connect" /\ snapshot_loaded /\ loads = 1)]_vars

\* two diffs of the stream handled in Live, one of them applied
C34_Witness ==
    /\ pc = "recv" /\ snapshot_loaded /\ loads = 1
    /\ debug_depth_count = 2 /\ update_count >= 1
    /\ buffered_updates = <<>>

\* C35: the replica freezes after a gap: once apply_update has returned false
\* for a diff received in Live, no later step of the run changes bids, asks
\* or last_update_id (here: none does while that diff is the last one
\* handled, the step that handles the next diff included), and load_snapshot
\* is not called again.
C35_FrozenAfterGap ==
    [][applied = "False" =>
          /\ UNCHANGED <<bids, asks, last_update_id>>
          /\ loads' = loads]_vars

\* every bid price is below every ask price; a book with an empty side is not
\* crossed
NotCrossed(b, a) == \A p \in DOMAIN b : \A q \in DOMAIN a : p < q

\* C36: an artifact built from a book that is not crossed, a book with one
\* empty side included, has spread_bps >= 0.
C36_SpreadNonNegative ==
    [][(Publishes /\ NotCrossed(bids', asks')) =>
          /\ Published.spread_bps[2] > 0
          /\ Published.spread_bps[1] >= 0]_vars

----------------------------------------------------------------------------
(* Claims about the keys of the volume maps (SpecVolume)                    *)

\* C37: every key of the bid-volume map and of the ask-volume map has a
\* value strictly greater than 0, after any sequence of process_trade with
\* quantities that are not negative, evictions and clear.
C37_VolumesPositive ==
    /\ \A bin_price \in DOMAIN bid_volume : bid_volume[bin_price] > 0
    /\ \A bin_price \in DOMAIN ask_volume : ask_volume[bin_price] > 0

====
